---- MODULE Spec2Model ----
(***************************************************************************)
(* Configuration loader of n8n_deploy (config/models.py and                *)
(* config/config_loader.py): the typed configuration schema, the           *)
(* ConfigLoader with its parsed-document cache, and load_config's          *)
(* resolution steps (stack type, defaults merge, overrides, scoping).      *)
(*                                                                         *)
(* Python objects live in a heap, heap[address] = [cls, f], where f maps   *)
(* attribute names (or dict keys) to values and a value is a scalar or a   *)
(* reference to another heap object.  An address is a tuple whose first    *)
(* element names the owner of the object: "cache" for the objects of       *)
(* loader._config, "ret" for objects created by the latest load_config,    *)
(* "old" for the objects of a replaced loader._config that the caller      *)
(* still reaches through the configuration it holds.  The caller holds the *)
(* configuration returned by its latest load_config call, and nothing      *)
(* after a call that raised.                                               *)
(***************************************************************************)
EXTENDS Integers, Sequences, FiniteSets, TLC

VARIABLES file, raw, hasConfig, heap, hasResult, last, reads, muts,
          cpuIn, memIn, fgOut,
          secIn, secOut,
          pc, appEnvironment, appStackType, appComponents, appStacks, built,
          monitoringArgs, tags, raised,
          disk, locator, outcome,
          tunnel_domain, accepted,
          circuit, clock, calls, opening, reply,
          request, queued, dlq, response, retries, first

loaderVars == <<file, raw, hasConfig, heap, hasResult, last, reads, muts>>
fargateVars == <<cpuIn, memIn, fgOut>>
sectionVars == <<secIn, secOut>>
driverVars == <<pc, appEnvironment, appStackType, appComponents, appStacks, built,
                monitoringArgs, tags, raised>>
locateVars == <<disk, locator, outcome>>
domainVars == <<tunnel_domain, accepted>>
breakerVars == <<circuit, clock, calls, opening, reply>>
retryVars == <<request, queued, dlq, response, retries, first>>
auxVars == <<locateVars, domainVars, breakerVars, retryVars>>
vars == <<disk, locator, outcome, tunnel_domain, accepted,
          circuit, clock, calls, opening, reply,
          request, queued, dlq, response, retries, first,
          file, raw, hasConfig, heap, hasResult, last, reads, muts,
          cpuIn, memIn, fgOut, secIn, secOut,
          pc, appEnvironment, appStackType, appComponents, appStacks, built,
          monitoringArgs, tags, raised>>

(***************************************************************************)
(* Bounds of the model.                                                    *)
(***************************************************************************)
MaxReads == 2
MaxMutations == 1

(***************************************************************************)
(* Python values.                                                          *)
(***************************************************************************)
None == [k |-> "None"]
IntV(n) == [k |-> "int", i |-> n]
StrV(s) == [k |-> "str", s |-> s]
BoolV(b) == [k |-> "bool", b |-> b]
RawList(t) == [k |-> "list", t |-> t]
Tup(t) == [k |-> "tuple", t |-> t]
Ref(a) == [k |-> "ref", a |-> a]
RawDict(d) == [k |-> "dict", d |-> d]
EmptyMap == [x \in {} |-> None]

Get(d, key) == IF key \in DOMAIN d THEN d[key] ELSE None

Obj(cls, f) == [cls |-> cls, f |-> f]

Restrict(fn, S) == [x \in S |-> fn[x]]

(***************************************************************************)
(* Heap helpers.                                                           *)
(***************************************************************************)
RefsOf(o) == {o.f[x].a : x \in {y \in DOMAIN o.f : o.f[y].k = "ref"}}

RECURSIVE Reach(_, _)
Reach(h, S) ==
    LET T == S \cup UNION {RefsOf(h[a]) : a \in S}
    IN  IF T = S THEN S ELSE Reach(h, T)

Collect(h, roots) == Restrict(h, Reach(h, roots))

Owned(o, a) == [a EXCEPT ![1] = o]

Rename(o, obj) ==
    Obj(obj.cls, [x \in DOMAIN obj.f |->
                    IF obj.f[x].k = "ref" THEN Ref(Owned(o, obj.f[x].a))
                    ELSE obj.f[x]])

\* value of the object graph below an address, without the addresses
RECURSIVE Val(_, _)
Val(h, a) ==
    [cls |-> h[a].cls,
     f |-> [x \in DOMAIN h[a].f |->
              IF h[a].f[x].k = "ref"
              THEN [k |-> "obj", o |-> Val(h, h[a].f[x].a)]
              ELSE h[a].f[x]]]

ValOf(h, v) == IF v.k = "ref" THEN [k |-> "obj", o |-> Val(h, v.a)] ELSE v

\* Python truthiness: BaseModel instances define neither __bool__ nor __len__
Truthy(h, v) ==
    CASE v.k = "None" -> FALSE
      [] v.k = "int" -> v.i # 0
      [] v.k = "str" -> v.s # ""
      [] v.k = "bool" -> v.b
      [] v.k = "tuple" -> Len(v.t) > 0
      [] v.k = "ref" ->
           IF h[v.a].cls = "dict" THEN DOMAIN h[v.a].f # {}
           ELSE IF h[v.a].cls = "list" THEN Len(h[v.a].f["items"].t) > 0
           ELSE TRUE

(***************************************************************************)
(* Schema (config/models.py).  A raw section is a mapping from field names *)
(* to values, as yaml.safe_load returns it; validation builds the typed    *)
(* record, filling every absent field with its field-level default.        *)
(***************************************************************************)
InRange(m, lo, stop, step) == m >= lo /\ m < stop /\ (m - lo) % step = 0

\* valid_combinations[cpu] of validate_cpu_memory_combination, as a predicate
CpuInTable(cpu) == cpu \in {256, 512, 1024, 2048, 4096, 8192, 16384}

MemoryListed(cpu, memory) ==
    CASE cpu = 256 -> memory \in {512, 1024, 2048}
      [] cpu = 512 -> memory \in {1024, 2048, 3072, 4096}
      [] cpu = 1024 -> InRange(memory, 2048, 8193, 1024)
      [] cpu = 2048 -> InRange(memory, 4096, 16385, 1024)
      [] cpu = 4096 -> InRange(memory, 8192, 30721, 1024)
      [] cpu = 8192 -> InRange(memory, 16384, 61441, 4096)
      [] cpu = 16384 -> InRange(memory, 32768, 122881, 8192)
      [] OTHER -> FALSE

\* a pydantic error of a field constraint: the field and the offending input
FieldError(field, input) == [rule |-> field, a |-> input, b |-> input]

CpuFieldOk(cpu) == cpu >= 256 /\ cpu <= 16384
MemoryFieldOk(memory) == memory >= 512 /\ memory <= 122880

\* the @validator("memory"): pydantic runs it only on a memory value that was
\* given and passed the field constraints; values holds cpu when cpu validated
validate_cpu_memory_combination(memory, values) ==
    LET cpu == IF "cpu" \in DOMAIN values THEN values["cpu"] ELSE 256
    IN  IF CpuInTable(cpu) /\ ~MemoryListed(cpu, memory)
        THEN [ok |-> FALSE,
              msg |-> [rule |-> "Invalid CPU/memory combination", a |-> cpu, b |-> memory]]
        ELSE [ok |-> TRUE, msg |-> [rule |-> "", a |-> 0, b |-> 0]]

FargateDefaults ==
    [cpu |-> IntV(256), memory |-> IntV(512), spot_percentage |-> IntV(80),
     n8n_version |-> StrV("1.94.1")]

\* FargateConfig built from a raw section: field constraints, then the memory validator
FargateConfig(d) ==
    LET cpuGiven == "cpu" \in DOMAIN d
        memGiven == "memory" \in DOMAIN d
        cpuOk == ~cpuGiven \/ CpuFieldOk(d["cpu"].i)
        memFieldOk == ~memGiven \/ MemoryFieldOk(d["memory"].i)
        spotOk == "spot_percentage" \notin DOMAIN d
                  \/ (d["spot_percentage"].i >= 0 /\ d["spot_percentage"].i <= 100)
        values == IF cpuOk
                  THEN [x \in {"cpu"} |-> IF cpuGiven THEN d["cpu"].i ELSE 256]
                  ELSE [x \in {} |-> 0]
        comb == IF memGiven /\ memFieldOk
                THEN validate_cpu_memory_combination(d["memory"].i, values)
                ELSE [ok |-> TRUE, msg |-> [rule |-> "", a |-> 0, b |-> 0]]
        msgs == (IF cpuOk THEN {} ELSE {FieldError("cpu", d["cpu"].i)})
                \cup (IF memFieldOk THEN {} ELSE {FieldError("memory", d["memory"].i)})
                \cup (IF spotOk THEN {} ELSE
                         {FieldError("spot_percentage", d["spot_percentage"].i)})
                \cup (IF comb.ok THEN {} ELSE {comb.msg})
    IN  [ok |-> msgs = {},
         msgs |-> msgs,
         f |-> [x \in DOMAIN FargateDefaults |->
                  IF x \in DOMAIN d THEN d[x] ELSE FargateDefaults[x]]]

MonitoringDefaults ==
    [log_retention_days |-> IntV(30), alarm_email |-> None,
     enable_container_insights |-> BoolV(TRUE), enable_xray_tracing |-> BoolV(FALSE),
     custom_metrics_namespace |-> StrV("N8n/Serverless")]

MonitoringConfig(d) ==
    LET ok == "log_retention_days" \notin DOMAIN d
              \/ (d["log_retention_days"].i >= 1 /\ d["log_retention_days"].i <= 365)
    IN  [ok |-> ok,
         msgs |-> IF ok THEN {}
                  ELSE {FieldError("log_retention_days", d["log_retention_days"].i)},
         f |-> [x \in DOMAIN MonitoringDefaults |->
                  IF x \in DOMAIN d THEN d[x] ELSE MonitoringDefaults[x]]]

BackupDefaults ==
    [enabled |-> BoolV(TRUE), retention_days |-> IntV(7),
     cross_region_backup |-> BoolV(FALSE), backup_regions |-> None]

BackupConfig(d) ==
    LET ok == "retention_days" \notin DOMAIN d
              \/ (d["retention_days"].i >= 1 /\ d["retention_days"].i <= 365)
    IN  [ok |-> ok,
         msgs |-> IF ok THEN {} ELSE {FieldError("retention_days", d["retention_days"].i)},
         f |-> [x \in DOMAIN BackupDefaults |->
                  IF x \in DOMAIN d THEN d[x] ELSE BackupDefaults[x]]]

\* a field of a section: the raw value when the section gives it, else its default
Filled(defaults, d) == [x \in DOMAIN defaults |-> IF x \in DOMAIN d THEN d[x] ELSE defaults[x]]

\* Field(..., ge=lo, le=hi) on an integer field the section gives
RangeErrors(d, field, lo, hi) ==
    IF field \in DOMAIN d /\ (d[field].i < lo \/ d[field].i > hi)
    THEN {FieldError(field, d[field].i)} ELSE {}

\* the error of a value that is not a member of the field's Enum
EnumError(field) == [rule |-> field \o ": not a member of the enum", a |-> 0, b |-> 0]

EnumErrors(d, field, members) ==
    IF field \in DOMAIN d /\ d[field].k = "str" /\ d[field].s \notin members
    THEN {EnumError(field)} ELSE {}

\* the ValueError a validator raises
Raised(text) == [rule |-> text, a |-> 0, b |-> 0]

\* Field(..., ge=lo) on an integer field the section gives
AtLeastErrors(d, field, lo) ==
    IF field \in DOMAIN d /\ d[field].i < lo THEN {FieldError(field, d[field].i)} ELSE {}

ScalingDefaults ==
    [min_tasks |-> IntV(1), max_tasks |-> IntV(1), target_cpu_utilization |-> IntV(70),
     scale_in_cooldown |-> IntV(300), scale_out_cooldown |-> IntV(60)]

\* the @validator("max_tasks"): runs on a max_tasks that was given and passed its
\* constraint; values holds min_tasks (given or default) unless min_tasks failed
validate_max_tasks(max_tasks, values) ==
    LET min_tasks == IF "min_tasks" \in DOMAIN values THEN values["min_tasks"] ELSE 1
    IN  IF max_tasks < min_tasks
        THEN {[rule |-> "max_tasks must be >= min_tasks", a |-> max_tasks, b |-> min_tasks]}
        ELSE {}

ScalingConfig(d) ==
    LET minErr == AtLeastErrors(d, "min_tasks", 1)
        maxErr == AtLeastErrors(d, "max_tasks", 1)
        f == Filled(ScalingDefaults, d)
        values == IF minErr = {} THEN [x \in {"min_tasks"} |-> f["min_tasks"].i]
                  ELSE [x \in {} |-> 0]
        msgs == minErr \cup maxErr
                \cup RangeErrors(d, "target_cpu_utilization", 10, 90)
                \cup AtLeastErrors(d, "scale_in_cooldown", 60)
                \cup AtLeastErrors(d, "scale_out_cooldown", 60)
                \cup (IF "max_tasks" \in DOMAIN d /\ maxErr = {}
                      THEN validate_max_tasks(d["max_tasks"].i, values) ELSE {})
    IN  [ok |-> msgs = {}, msgs |-> msgs, f |-> f]

NetworkingDefaults ==
    [use_existing_vpc |-> BoolV(FALSE), vpc_id |-> None, vpc_cidr |-> StrV("10.0.0.0/16"),
     subnet_ids |-> None, availability_zones |-> None, nat_gateways |-> IntV(0)]

\* not v, for an Optional[str]
Falsy(v) == v.k = "None" \/ (v.k = "str" /\ v.s = "")

\* the @validator("vpc_id"): runs on a vpc_id the section gives (null included),
\* never on the default
validate_vpc_id(vpc_id, use_existing_vpc) ==
    IF use_existing_vpc /\ Falsy(vpc_id)
    THEN {Raised("vpc_id required when use_existing_vpc is True")} ELSE {}

NetworkingConfig(d) ==
    LET f == Filled(NetworkingDefaults, d)
        msgs == RangeErrors(d, "nat_gateways", 0, 3)
                \cup (IF "vpc_id" \in DOMAIN d
                      THEN validate_vpc_id(d["vpc_id"], f["use_existing_vpc"].b) ELSE {})
    IN  [ok |-> msgs = {}, msgs |-> msgs, f |-> f]

DatabaseType == {"sqlite", "postgres"}

DatabaseDefaults ==
    [type |-> StrV("sqlite"), use_existing |-> BoolV(FALSE), connection_secret_arn |-> None,
     instance_class |-> None, multi_az |-> BoolV(FALSE), aurora_serverless |-> None,
     backup_retention_days |-> IntV(7)]

DatabaseConfig(d) ==
    LET msgs == EnumErrors(d, "type", DatabaseType)
                \cup RangeErrors(d, "backup_retention_days", 1, 35)
    IN  [ok |-> msgs = {}, msgs |-> msgs, f |-> Filled(DatabaseDefaults, d)]

AuthProvider == {"google", "github", "okta", "azure_ad"}

AuthDefaults ==
    [basic_auth_enabled |-> BoolV(TRUE), oauth_enabled |-> BoolV(FALSE),
     oauth_provider |-> None, mfa_required |-> BoolV(FALSE),
     allowed_email_domains |-> None]

\* the @validator("oauth_provider"): runs on a provider the section gives (null
\* included) that is a member of the enum, never on the default
validate_oauth_provider(oauth_provider, oauth_enabled) ==
    IF oauth_enabled /\ Falsy(oauth_provider)
    THEN {Raised("oauth_provider required when oauth_enabled is True")} ELSE {}

AuthConfig(d) ==
    LET f == Filled(AuthDefaults, d)
        enumErr == EnumErrors(d, "oauth_provider", AuthProvider)
        msgs == enumErr
                \cup (IF "oauth_provider" \in DOMAIN d /\ enumErr = {}
                      THEN validate_oauth_provider(d["oauth_provider"], f["oauth_enabled"].b)
                      ELSE {})
    IN  [ok |-> msgs = {}, msgs |-> msgs, f |-> f]

CloudflareDefaults ==
    [enabled |-> BoolV(FALSE), tunnel_token_secret_name |-> None, tunnel_name |-> None,
     tunnel_domain |-> None, access_enabled |-> BoolV(FALSE),
     access_allowed_emails |-> None, access_allowed_domains |-> None]

\* the model validator of CloudflareConfig, run after the fields validated
validate_tunnel_token(f) ==
    IF f["enabled"].b /\ Falsy(f["tunnel_token_secret_name"])
    THEN {Raised("tunnel_token_secret_name is required when Cloudflare is enabled")}
    ELSE {}

CloudflareConfig(d) ==
    LET f == Filled(CloudflareDefaults, d)
        msgs == validate_tunnel_token(f)
    IN  [ok |-> msgs = {}, msgs |-> msgs, f |-> f]

AccessType == {"api_gateway", "cloudflare"}

AccessDefaults ==
    [type |-> StrV("api_gateway"), domain_name |-> None, cloudfront_enabled |-> BoolV(TRUE),
     waf_enabled |-> BoolV(FALSE), api_gateway_throttle |-> IntV(1000),
     cors_origins |-> Tup(<<"*">>), ip_whitelist |-> None, cloudflare |-> None]

\* a nested model as the value of a field
Nested(cls, f) == [k |-> "obj", o |-> Obj(cls, f)]

\* the model validator of AccessConfig, run after the fields validated: with the
\* cloudflare type an absent tunnel configuration is constructed without
\* validation, a present one is written to without validation
validate_cloudflare(f) ==
    IF f["type"].s # "cloudflare" THEN f
    ELSE IF f["cloudflare"].k = "None"
    THEN [f EXCEPT !["cloudflare"] =
             Nested("CloudflareConfig", [CloudflareDefaults EXCEPT !["enabled"] = BoolV(TRUE)])]
    ELSE [f EXCEPT !["cloudflare"].o.f["enabled"] = BoolV(TRUE)]

AccessConfig(d) ==
    LET given == "cloudflare" \in DOMAIN d /\ d["cloudflare"].k = "dict"
        tunnel(c) ==
            LET fields == [x \in DOMAIN AccessDefaults |->
                             IF x = "cloudflare" /\ given
                             THEN Nested("CloudflareConfig", c.f)
                             ELSE IF x \in DOMAIN d THEN d[x] ELSE AccessDefaults[x]]
                msgs == EnumErrors(d, "type", AccessType)
                        \cup AtLeastErrors(d, "api_gateway_throttle", 1)
                        \cup (IF given THEN c.msgs ELSE {})
            IN  [ok |-> msgs = {}, msgs |-> msgs,
                 f |-> IF msgs = {} THEN validate_cloudflare(fields) ELSE fields]
    IN  tunnel(CloudflareConfig(IF given THEN d["cloudflare"].d ELSE EmptyMap))

\* the typed sections of DefaultsConfig
Sections == {"fargate", "monitoring", "backup"}

\* the typed sections of EnvironmentSettings the documents of this model give
EnvSections == Sections \cup {"scaling", "networking", "database", "auth"}

SectionCls(sec) ==
    CASE sec = "fargate" -> "FargateConfig"
      [] sec = "monitoring" -> "MonitoringConfig"
      [] sec = "backup" -> "BackupConfig"
      [] sec = "scaling" -> "ScalingConfig"
      [] sec = "networking" -> "NetworkingConfig"
      [] sec = "database" -> "DatabaseConfig"
      [] sec = "auth" -> "AuthConfig"

SectionModel(sec, d) ==
    CASE sec = "fargate" -> FargateConfig(d)
      [] sec = "monitoring" -> MonitoringConfig(d)
      [] sec = "backup" -> BackupConfig(d)
      [] sec = "scaling" -> ScalingConfig(d)
      [] sec = "networking" -> NetworkingConfig(d)
      [] sec = "database" -> DatabaseConfig(d)
      [] sec = "auth" -> AuthConfig(d)

\* the declared fields of EnvironmentSettings
SettingsFields ==
    {"deployment_type", "docker", "fargate", "scaling", "networking", "access",
     "database", "auth", "monitoring", "backup", "high_availability", "features"}

\* names that are attributes of every EnvironmentSettings instance without
\* being fields: the methods it inherits from pydantic's BaseModel
NonFieldAttributes == {"copy", "dict", "json"}

hasattr_settings(key) == key \in SettingsFields \cup NonFieldAttributes

(***************************************************************************)
(* N8nConfig built from the raw document: the validated document as heap   *)
(* objects of one owner.                                                   *)
(***************************************************************************)
RECURSIVE MergeAll(_)
MergeAll(S) ==
    IF S = {} THEN EmptyMap
    ELSE LET x == CHOOSE y \in S : TRUE IN x @@ MergeAll(S \ {x})

HeapVal(addr, rv) == IF rv.k \in {"dict", "list"} THEN Ref(addr) ELSE rv

\* the objects of a raw value (Dict[str, Any] / List fields keep raw values)
RECURSIVE PutRaw(_, _)
PutRaw(addr, rv) ==
    IF rv.k = "list" THEN addr :> Obj("list", [items |-> Tup(rv.t)])
    ELSE IF rv.k = "dict"
    THEN (addr :> Obj("dict", [x \in DOMAIN rv.d |-> HeapVal(addr \o <<x>>, rv.d[x])]))
         @@ MergeAll({PutRaw(addr \o <<x>>, rv.d[x]) : x \in DOMAIN rv.d})
    ELSE EmptyMap

Given(d, key) == key \in DOMAIN d /\ d[key].k # "None"

\* a typed section at addr
PutSection(addr, sec, rv) == addr :> Obj(SectionCls(sec), SectionModel(sec, rv.d).f)

EnvironmentSettings(addr, d) ==
    (addr :> Obj("EnvironmentSettings",
        [x \in SettingsFields |->
           IF x \in EnvSections \cup {"features"}
           THEN (IF Given(d, x) THEN Ref(addr \o <<x>>) ELSE None)
           ELSE IF x = "deployment_type"
           THEN (IF Given(d, x) THEN d[x] ELSE StrV("aws"))
           ELSE None]))
    @@ MergeAll({PutSection(addr \o <<x>>, x, d[x]) : x \in {y \in EnvSections : Given(d, y)}})
    @@ (IF Given(d, "features") THEN PutRaw(addr \o <<"features">>, d["features"])
        ELSE EmptyMap)

EnvironmentConfig(addr, d) ==
    (addr :> Obj("EnvironmentConfig",
        [account |-> d["account"], region |-> d["region"], multi_region |-> None,
         settings |-> Ref(addr \o <<"settings">>), tags |-> None]))
    @@ EnvironmentSettings(addr \o <<"settings">>, d["settings"].d)

StackConfig(addr, d) ==
    (addr :> Obj("StackConfig",
        [description |-> d["description"],
         components |-> Ref(addr \o <<"components">>),
         settings |-> IF Given(d, "settings") THEN Ref(addr \o <<"settings">>) ELSE None,
         inherit_from |-> None]))
    @@ PutRaw(addr \o <<"components">>, d["components"])
    @@ (IF Given(d, "settings") THEN PutRaw(addr \o <<"settings">>, d["settings"])
        ELSE EmptyMap)

DefaultsConfig(addr, d) ==
    (addr :> Obj("DefaultsConfig",
        [x \in Sections \cup {"efs"} |->
           IF x \in Sections /\ Given(d, x) THEN Ref(addr \o <<x>>) ELSE None]))
    @@ MergeAll({PutSection(addr \o <<x>>, x, d[x]) : x \in {y \in Sections : Given(d, y)}})

GlobalConfig(addr, d) ==
    addr :> Obj("GlobalConfig",
        [project_name |-> d["project_name"], organization |-> d["organization"],
         tags |-> None, cost_allocation_tags |-> None])

\* the section rules every typed section of the document must pass
SectionErrors(secs, d) ==
    UNION {SectionModel(x, d[x].d).msgs : x \in {y \in secs : Given(d, y)}}

\* a required str field: "account: str", "region: str"
RequiredErrors(d, field) ==
    IF Given(d, field) /\ d[field].k = "str" THEN {}
    ELSE {[rule |-> field \o ": required string", a |-> 0, b |-> 0]}

\* validation of the environments alone, the defaults unchecked
DocErrorsWithoutDefaults(doc) ==
    UNION {SectionErrors(EnvSections, doc["environments"].d[e].d["settings"].d)
           \cup RequiredErrors(doc["environments"].d[e].d, "account")
           \cup RequiredErrors(doc["environments"].d[e].d, "region") :
             e \in DOMAIN doc["environments"].d}

\* the errors of the document against the schema, over the whole of it
DocErrors(doc) ==
    (IF Given(doc, "defaults") THEN SectionErrors(Sections, doc["defaults"].d) ELSE {})
    \cup UNION {SectionErrors(EnvSections, doc["environments"].d[e].d["settings"].d)
                \cup RequiredErrors(doc["environments"].d[e].d, "account")
                \cup RequiredErrors(doc["environments"].d[e].d, "region") :
                  e \in DOMAIN doc["environments"].d}

N8nConfig(o, doc) ==
    (<<o, "root">> :> Obj("N8nConfig",
        [global_config |-> Ref(<<o, "global">>),
         defaults |-> IF Given(doc, "defaults") THEN Ref(<<o, "defaults">>) ELSE None,
         environments |-> Ref(<<o, "environments">>),
         stacks |-> IF Given(doc, "stacks") THEN Ref(<<o, "stacks">>) ELSE None,
         shared_resources |-> None]))
    @@ GlobalConfig(<<o, "global">>, doc["global"].d)
    @@ (IF Given(doc, "defaults") THEN DefaultsConfig(<<o, "defaults">>, doc["defaults"].d)
        ELSE EmptyMap)
    @@ (<<o, "environments">> :> Obj("dict",
          [e \in DOMAIN doc["environments"].d |-> Ref(<<o, "env", e>>)]))
    @@ MergeAll({EnvironmentConfig(<<o, "env", e>>, doc["environments"].d[e].d) :
                   e \in DOMAIN doc["environments"].d})
    @@ (IF Given(doc, "stacks")
        THEN (<<o, "stacks">> :> Obj("dict",
                [s \in DOMAIN doc["stacks"].d |-> Ref(<<o, "stack", s>>)]))
             @@ MergeAll({StackConfig(<<o, "stack", s>>, doc["stacks"].d[s].d) :
                            s \in DOMAIN doc["stacks"].d})
        ELSE EmptyMap)

(***************************************************************************)
(* ConfigLoader (config/config_loader.py).  Each step is an operator from  *)
(* a heap to a heap; a raised exception is the err of its result.          *)
(***************************************************************************)
CRoot == <<"cache", "root">>
RRoot == <<"ret", "root">>

NoError == None
Error(type, name) == [k |-> "err", type |-> type, name |-> name]

get_environment(h, env_name) ==
    Get(h[h[CRoot].f["environments"].a].f, env_name)

get_stack_config(h, stack_type) ==
    LET stacks == h[CRoot].f["stacks"]
    IN  IF Truthy(h, stacks) THEN Get(h[stacks.a].f, stack_type) ELSE None

\* model.copy(deep=True): a copy of every object reachable from a
copy_deep(h, a) ==
    LET R == Reach(h, {a})
        T == {Owned("ret", x) : x \in R}
    IN  [b \in DOMAIN h \cup T |->
           IF b \in T THEN Rename("ret", h[IF b \in R THEN b ELSE Owned("cache", b)])
           ELSE h[b]]

\* setattr(settings, key, value) for every key of items that hasattr() accepts;
\* BaseModel.__setattr__ raises ValueError for a name that is not a field
setattr_all(h, sa, items, keys) ==
    LET attrs == {x \in keys : hasattr_settings(x)}
        bad == attrs \ SettingsFields
    IN  IF bad # {}
        THEN [err |-> Error("ValueError: object has no field", CHOOSE x \in bad : TRUE),
              h |-> h]
        ELSE [err |-> NoError,
              h |-> [h EXCEPT ![sa].f = [x \in DOMAIN @ |->
                                           IF x \in attrs THEN items[x] ELSE @[x]]]]

\* an overlay written onto the environment it is given, without the copy
_apply_stack_type_in_place(h, env_config, stack_type) ==
    LET result(r) == [err |-> r.err, h |-> r.h, env |-> env_config]
        apply(settings) ==
            IF ~Truthy(h, settings)
            THEN [err |-> NoError, h |-> h, env |-> env_config]
            ELSE result(setattr_all(h, h[env_config].f["settings"].a, h[settings.a].f,
                                    DOMAIN h[settings.a].f \ {"components"}))
        found(stack_config) ==
            IF ~Truthy(h, stack_config)
            THEN [err |-> Error("StackTypeNotFound", stack_type), h |-> h, env |-> env_config]
            ELSE apply(h[stack_config.a].f["settings"])
    IN  found(get_stack_config(h, stack_type))

_apply_stack_type(h, env_config, stack_type) ==
    LET modified_config == Owned("ret", env_config)
        \* features = features or {}; features["components"] = settings["components"]
        components(h1, sa, fa, items) ==
            LET init(h1a) == [h1a EXCEPT ![h1a[sa].f["features"].a].f =
                                 ("components" :> items["components"]) @@ @]
            IN  IF "components" \notin DOMAIN items THEN h1
                ELSE init(IF Truthy(h1, h1[sa].f["features"]) THEN h1
                          ELSE (fa :> Obj("dict", EmptyMap))
                               @@ [h1 EXCEPT ![sa].f["features"] = Ref(fa)])
        result(r) == [err |-> r.err, h |-> r.h, env |-> modified_config]
        overlay(h1, sa, items) ==
            result(setattr_all(components(h1, sa, sa \o <<"features">>, items),
                               sa, items, DOMAIN items \ {"components"}))
        apply(h1, settings) ==
            IF ~Truthy(h1, settings)
            THEN [err |-> NoError, h |-> h1, env |-> modified_config]
            ELSE overlay(h1, h1[modified_config].f["settings"].a, h1[settings.a].f)
        found(stack_config) ==
            IF ~Truthy(h, stack_config)
            THEN [err |-> Error("StackTypeNotFound", stack_type), h |-> h, env |-> env_config]
            ELSE apply(copy_deep(h, env_config), h[stack_config.a].f["settings"])
    IN  found(get_stack_config(h, stack_type))

MergedSections == {"fargate", "monitoring", "backup"}

\* a merge that lets the defaults win over a section the environment gives
merge_with_defaults_overwriting(h, env_config) ==
    LET defaults == h[CRoot].f["defaults"]
        merged == Owned("ret", env_config)
        assign(h1, sa, d) ==
            [h1 EXCEPT ![sa].f = [x \in DOMAIN @ |->
                IF x \in MergedSections /\ Truthy(h1, d[x])
                THEN d[x] ELSE @[x]]]
        merge(h1) == assign(h1, h1[merged].f["settings"].a, h1[defaults.a].f)
    IN  IF ~Truthy(h, defaults) THEN [h |-> h, env |-> env_config]
        ELSE [h |-> merge(copy_deep(h, env_config)), env |-> merged]

\* N8nConfig.merge_with_defaults: a deep copy of the environment on which a
\* section that is falsy gets the object of the defaults section
merge_with_defaults(h, env_config) ==
    LET defaults == h[CRoot].f["defaults"]
        merged == Owned("ret", env_config)
        assign(h1, sa, d) ==
            [h1 EXCEPT ![sa].f = [x \in DOMAIN @ |->
                IF x \in MergedSections /\ Truthy(h1, d[x]) /\ ~Truthy(h1, @[x])
                THEN d[x] ELSE @[x]]]
        merge(h1) == assign(h1, h1[merged].f["settings"].a, h1[defaults.a].f)
    IN  IF ~Truthy(h, defaults) THEN [h |-> h, env |-> env_config]
        ELSE [h |-> merge(copy_deep(h, env_config)), env |-> merged]

_apply_overrides(h, env_config, overrides) ==
    LET modified_config == Owned("ret", env_config)
        result(r) == [err |-> r.err, h |-> r.h, env |-> modified_config]
        apply(h1) == result(setattr_all(h1, h1[modified_config].f["settings"].a,
                                        overrides, DOMAIN overrides))
    IN  apply(copy_deep(h, env_config))

\* a scoping that keeps every environment of the document beside the resolved one
selected_config_unscoped(h, environment, env_config) ==
    LET c == h[CRoot].f
    IN  (RRoot :> Obj("N8nConfig",
            [global_config |-> c["global_config"],
             defaults |-> c["defaults"],
             environments |-> Ref(<<"ret", "environments">>),
             stacks |-> IF c["stacks"].k = "ref" THEN Ref(<<"ret", "stacks">>) ELSE None,
             shared_resources |-> c["shared_resources"]]))
        @@ (<<"ret", "environments">> :>
              Obj("dict", (environment :> Ref(env_config)) @@ h[c["environments"].a].f))
        @@ (IF c["stacks"].k = "ref"
            THEN <<"ret", "stacks">> :> Obj("dict", h[c["stacks"].a].f)
            ELSE EmptyMap)
        @@ h

\* N8nConfig(global_config=..., defaults=..., environments={environment: env_config},
\* stacks=..., shared_resources=...): model instances are kept, dicts are rebuilt
selected_config(h, environment, env_config) ==
    LET c == h[CRoot].f
    IN  (RRoot :> Obj("N8nConfig",
            [global_config |-> c["global_config"],
             defaults |-> c["defaults"],
             environments |-> Ref(<<"ret", "environments">>),
             stacks |-> IF c["stacks"].k = "ref" THEN Ref(<<"ret", "stacks">>) ELSE None,
             shared_resources |-> c["shared_resources"]]))
        @@ (<<"ret", "environments">> :> Obj("dict", environment :> Ref(env_config)))
        @@ (IF c["stacks"].k = "ref"
            THEN <<"ret", "stacks">> :> Obj("dict", h[c["stacks"].a].f)
            ELSE EmptyMap)
        @@ h

\* what the steps saw, kept for the statements about single steps
NoTrace == [reached |-> FALSE]

\* load_config after the cache has been populated (lines 52-77)
load_config(h, environment, stack_type, overrides) ==
    LET settings(s) == s.h[s.env].f["settings"].a
        select(s3, trace) ==
            IF s3.err # NoError
            THEN [err |-> s3.err, h |-> h, merge |-> trace]
            ELSE [err |-> NoError,
                  h |-> Collect(selected_config(s3.h, environment, s3.env),
                                {CRoot, RRoot}),
                  merge |-> trace]
        override(s1, s2) ==
            select(IF DOMAIN overrides # {}
                   THEN _apply_overrides(s2.h, s2.env, overrides)
                   ELSE [err |-> NoError, h |-> s2.h, env |-> s2.env],
                   [reached |-> TRUE,
                    before |-> Val(s1.h, settings(s1)).f,
                    after |-> Val(s2.h, settings(s2)).f,
                    refs |-> s2.h[settings(s2)].f])
        merge(s1) ==
            IF s1.err # NoError
            THEN [err |-> s1.err, h |-> h, merge |-> NoTrace]
            ELSE override(s1, merge_with_defaults(s1.h, s1.env))
        stack(env0) ==
            IF ~Truthy(h, env0)
            THEN [err |-> Error("EnvironmentNotFound", environment), h |-> h,
                  merge |-> NoTrace]
            ELSE merge(IF Truthy(h, stack_type)
                       THEN _apply_stack_type(h, env0.a, stack_type.s)
                       ELSE [err |-> NoError, h |-> h, env |-> env0.a])
    IN  stack(get_environment(h, environment))

(***************************************************************************)
(* The configuration documents of the model: two environments, an          *)
(* optional defaults section and an optional stack table.                  *)
(***************************************************************************)
DevSettingsOpts ==
    {RawDict([fargate |-> None, monitoring |-> None,
              features |-> RawDict([beta |-> BoolV(TRUE)])]),
     RawDict([fargate |-> RawDict([cpu |-> IntV(512), memory |-> IntV(1024)]),
              monitoring |-> None, features |-> None])}

DefaultsFargate ==
    RawDict([cpu |-> IntV(2048), memory |-> IntV(4096), spot_percentage |-> IntV(50)])
DefaultsOpts ==
    {None,
     RawDict([fargate |-> DefaultsFargate,
              monitoring |-> RawDict([log_retention_days |-> IntV(14)]),
              backup |-> RawDict([retention_days |-> IntV(14)])])}

StackComponents == RawList(<<"fargate", "efs", "api_gateway">>)
OverlayOpts ==
    {None,
     RawDict([fargate |-> RawDict([cpu |-> IntV(256), memory |-> IntV(512)]),
              monitoring |-> RawDict(EmptyMap),
              components |-> RawList(<<"network", "compute">>),
              bogus |-> IntV(1)]),
     RawDict([copy |-> IntV(1)])}

StacksOpts ==
    {None} \cup
    {RawDict([minimal |-> RawDict([description |-> StrV("Minimal setup"),
                                   components |-> StackComponents,
                                   settings |-> o])]) : o \in OverlayOpts}

ProductionEnv ==
    RawDict([account |-> StrV("222222222222"), region |-> StrV("eu-west-1"),
             settings |-> RawDict(
                [fargate |-> RawDict([cpu |-> IntV(1024), memory |-> IntV(2048),
                                      spot_percentage |-> IntV(0)]),
                 monitoring |-> RawDict([log_retention_days |-> IntV(90)]),
                 backup |-> RawDict([retention_days |-> IntV(30)])])])

DevEnv(settings) ==
    RawDict([account |-> StrV("111111111111"), region |-> StrV("us-east-1"),
             settings |-> settings])

Document(devSettings, defaults, stacks) ==
    [global |-> RawDict([project_name |-> StrV("n8n"), organization |-> StrV("acme")]),
     defaults |-> defaults,
     environments |-> RawDict([dev |-> DevEnv(devSettings),
                               production |-> ProductionEnv]),
     stacks |-> stacks]

Docs ==
    {Document(ds, de, st) :
        ds \in DevSettingsOpts, de \in DefaultsOpts, st \in StacksOpts}

\* the arguments callers pass to load_config
EnvironmentArgs == {"dev", "production", "staging"}
StackTypeArgs == {None, StrV("minimal"), StrV("enterprise")}
OverrideArgs ==
    {EmptyMap,
     [fargate |-> None, deployment_type |-> StrV("docker"), bogus |-> IntV(1)]}

(***************************************************************************)
(* The loader as a state machine.                                          *)
(***************************************************************************)
Last(op, env, st, ov, err, names, merge) ==
    [op |-> op, env |-> env, st |-> st, ov |-> ov, err |-> err, names |-> names,
     merge |-> merge]

\* the variables of the parts a specification leaves alone
LoaderIdle ==
    /\ file = None
    /\ raw = None
    /\ hasConfig = FALSE
    /\ heap = EmptyMap
    /\ hasResult = FALSE
    /\ last = Last("init", "", None, EmptyMap, NoError, {}, NoTrace)
    /\ reads = 0
    /\ muts = 0

FargateIdle ==
    /\ cpuIn = None
    /\ memIn = None
    /\ fgOut = [status |-> "idle"]

SectionIdle ==
    /\ secIn = [cls |-> "", d |-> EmptyMap]
    /\ secOut = [status |-> "idle"]

DriverIdle ==
    /\ pc = "idle"
    /\ appEnvironment = ""
    /\ appStackType = None
    /\ appComponents = <<>>
    /\ appStacks = {}
    /\ built = <<>>
    /\ monitoringArgs = {}
    /\ tags = <<>>
    /\ raised = ""

LocateIdle ==
    /\ disk = [given |-> FALSE, at |-> {}, cwd |-> 0, text |-> ""]
    /\ locator = [config_file |-> [k |-> "given", i |-> 0], raw |-> "",
                  config |-> FALSE]
    /\ outcome = [op |-> "idle", exc |-> "", cause |-> ""]

DomainIdle ==
    /\ tunnel_domain = <<>>
    /\ accepted = "idle"

BreakerIdle ==
    /\ circuit = [present |-> FALSE, state |-> "", open_time |-> 0, failure_count |-> 0]
    /\ clock = 0
    /\ calls = <<>>
    /\ opening = [at |-> 0, opened |-> FALSE, closed |-> FALSE]
    /\ reply = [action |-> "", state |-> "", allow |-> FALSE]

RetryIdle ==
    /\ request = [has_count |-> FALSE, retry_count |-> 0, workflow_id |-> "",
                  webhook_url |-> "", payload |-> ""]
    /\ queued = FALSE
    /\ dlq = <<>>
    /\ response = [status |-> "", retry_count |-> 0, delay |-> 0]
    /\ retries = 0
    /\ first = 0

AuxIdle ==
    /\ LocateIdle
    /\ DomainIdle
    /\ BreakerIdle
    /\ RetryIdle

Init ==
    /\ file \in Docs
    /\ raw = None
    /\ hasConfig = FALSE
    /\ heap = EmptyMap
    /\ hasResult = FALSE
    /\ last = Last("init", "", None, EmptyMap, NoError, {}, NoTrace)
    /\ reads = 0
    /\ muts = 0
    /\ FargateIdle
    /\ SectionIdle
    /\ DriverIdle
    /\ AuxIdle

Roots == {CRoot} \cup (IF hasResult THEN {RRoot} ELSE {})

\* the caller's configuration keeps the objects of a replaced loader._config
ToOld(a) == IF a[1] = "cache" THEN Owned("old", a) ELSE a

Detach(h) ==
    IF RRoot \notin DOMAIN h THEN EmptyMap
    ELSE MergeAll({ToOld(x) :> Obj(h[x].cls,
                      [y \in DOMAIN h[x].f |->
                         IF h[x].f[y].k = "ref" THEN Ref(ToOld(h[x].f[y].a))
                         ELSE h[x].f[y]]) : x \in Reach(h, {RRoot})})

\* _validate_config: self._config = N8nConfig(**self._raw_config)
_validate_config(h, doc) == N8nConfig("cache", doc) @@ Detach(h)

\* a call of load_config on the loader
Load(environment, stack_type, overrides) ==
    LET doRead == raw = None
        raw1 == IF doRead THEN file ELSE raw
        doValidate == ~hasConfig
        invalid == doValidate /\ DocErrors(raw1) # {}
        returns(cache, r) ==
            /\ hasConfig' = TRUE
            /\ heap' = IF r.err = NoError THEN r.h ELSE cache
            /\ hasResult' = (r.err = NoError)
            /\ last' = Last("load_config", environment, stack_type, overrides,
                            r.err, {}, r.merge)
        resolve(cache) ==
            returns(cache, load_config(cache, environment, stack_type, overrides))
    IN  /\ doRead => reads < MaxReads
        /\ raw' = raw1
        /\ reads' = IF doRead THEN reads + 1 ELSE reads
        /\ IF invalid
           THEN /\ UNCHANGED <<hasConfig, heap>>
                /\ hasResult' = FALSE
                /\ last' = Last("load_config", environment, stack_type, overrides,
                                Error("ConfigInvalid", ""), {}, NoTrace)
           ELSE resolve(Collect(IF doValidate THEN _validate_config(heap, raw1)
                                ELSE heap, {CRoot}))
        /\ UNCHANGED <<file, muts>>

LoadConfig(environment, stack_type, overrides) ==
    /\ Load(environment, stack_type, overrides)
    /\ UNCHANGED <<fargateVars, sectionVars, driverVars, auxVars>>

\* get_available_environments / get_available_stack_types
ListNames(op) ==
    LET need == ~hasConfig
        invalid == need /\ DocErrors(file) # {}
        h1 == IF need THEN _validate_config(heap, file) ELSE heap
        table == h1[CRoot].f[IF op = "get_available_environments"
                             THEN "environments" ELSE "stacks"]
    IN  /\ need => reads < MaxReads
        /\ raw' = IF need THEN file ELSE raw
        /\ reads' = IF need THEN reads + 1 ELSE reads
        /\ IF invalid
           THEN /\ UNCHANGED <<hasConfig, heap>>
                /\ last' = Last(op, "", None, EmptyMap, Error("ConfigInvalid", ""),
                                {}, NoTrace)
           ELSE /\ hasConfig' = TRUE
                /\ heap' = h1
                /\ last' = Last(op, "", None, EmptyMap, NoError,
                                IF Truthy(h1, table) THEN DOMAIN h1[table.a].f ELSE {},
                                NoTrace)
        /\ UNCHANGED <<file, hasResult, muts>>
        /\ UNCHANGED <<fargateVars, sectionVars, driverVars, auxVars>>

GetAvailableEnvironments == ListNames("get_available_environments")

GetAvailableStackTypes == ListNames("get_available_stack_types")

ValidateConfigFile ==
    /\ reads < MaxReads
    /\ raw' = file
    /\ reads' = reads + 1
    /\ IF DocErrors(file) # {}
       THEN /\ UNCHANGED <<hasConfig, heap>>
            /\ last' = Last("validate_config_file", "", None, EmptyMap,
                            Error("ValueError", "Configuration validation failed"),
                            {}, NoTrace)
       ELSE /\ hasConfig' = TRUE
            /\ heap' = Collect(_validate_config(heap, file), Roots)
            /\ last' = Last("validate_config_file", "", None, EmptyMap, NoError,
                            {}, NoTrace)
    /\ UNCHANGED <<file, hasResult, muts>>
    /\ UNCHANGED <<fargateVars, sectionVars, driverVars, auxVars>>

\* what the caller may assign on an object of the configuration it holds
Mutations(o) ==
    CASE o.cls = "FargateConfig" -> {<<"spot_percentage", IntV(0)>>}
      [] OTHER -> {}

CallerMutates ==
    /\ hasResult
    /\ muts < MaxMutations
    /\ \E a \in Reach(heap, {RRoot}) :
         \E m \in Mutations(heap[a]) :
            /\ heap[a].f[m[1]] # m[2]
            /\ heap' = Collect([heap EXCEPT ![a].f[m[1]] = m[2]], Roots)
    /\ muts' = muts + 1
    /\ last' = Last("mutate", "", None, EmptyMap, NoError, {}, NoTrace)
    /\ UNCHANGED <<file, raw, hasConfig, hasResult, reads>>
    /\ UNCHANGED <<fargateVars, sectionVars, driverVars, auxVars>>

Next ==
    \/ \E e \in EnvironmentArgs, s \in StackTypeArgs, o \in OverrideArgs :
          LoadConfig(e, s, o)
    \/ GetAvailableEnvironments
    \/ GetAvailableStackTypes
    \/ ValidateConfigFile
    \/ CallerMutates

Spec == Init /\ [][Next]_vars

(***************************************************************************)
(* FargateConfig validation on its own: a raw compute-sizing section with  *)
(* cpu and memory each given or left out.                                  *)
(***************************************************************************)
CpuInputs ==
    {None} \cup {IntV(c) : c \in {128, 256, 300, 512, 1024, 2048, 4096, 8192, 16384}}
MemoryInputs ==
    {None} \cup {IntV(m) : m \in {256, 512, 1024, 2048, 3072, 4096, 5120, 8192,
                                  16384, 30720, 32768, 61440, 122880}}

RawFargate(cpu, memory) ==
    (IF cpu = None THEN EmptyMap ELSE "cpu" :> cpu)
    @@ (IF memory = None THEN EmptyMap ELSE "memory" :> memory)

FargateInit ==
    /\ cpuIn \in CpuInputs
    /\ memIn \in MemoryInputs
    /\ fgOut = [status |-> "pending"]
    /\ LoaderIdle
    /\ SectionIdle
    /\ DriverIdle
    /\ AuxIdle

ValidateFargate ==
    /\ fgOut.status = "pending"
    /\ LET r == FargateConfig(RawFargate(cpuIn, memIn))
       IN  fgOut' = [status |-> IF r.ok THEN "ok" ELSE "ConfigInvalid",
                     msgs |-> r.msgs,
                     cpu |-> r.f["cpu"].i,
                     memory |-> r.f["memory"].i]
    /\ UNCHANGED <<cpuIn, memIn>>
    /\ UNCHANGED <<loaderVars, sectionVars, driverVars, auxVars>>

FargateNext == ValidateFargate

SpecFargate == FargateInit /\ [][FargateNext]_vars

(***************************************************************************)
(* Validation of one scaling, auth, networking or access section given as  *)
(* a raw mapping.  A field is left out of the mapping, or given (null      *)
(* included).                                                              *)
(***************************************************************************)
Absent == [k |-> "absent"]

Opt(key, v) == IF v = Absent THEN EmptyMap ELSE key :> v

TaskCounts == {Absent} \cup {IntV(n) : n \in {0, 1, 2, 3, 5}}
Flags == {Absent, BoolV(TRUE), BoolV(FALSE)}

ScalingInputs ==
    {[cls |-> "ScalingConfig", d |-> Opt("min_tasks", lo) @@ Opt("max_tasks", hi)] :
        lo \in TaskCounts, hi \in TaskCounts}

AuthInputs ==
    {[cls |-> "AuthConfig", d |-> Opt("oauth_enabled", e) @@ Opt("oauth_provider", p)] :
        e \in Flags, p \in {Absent, None, StrV("google"), StrV("myspace")}}

NetworkingInputs ==
    {[cls |-> "NetworkingConfig", d |-> Opt("use_existing_vpc", u) @@ Opt("vpc_id", v)] :
        u \in Flags, v \in {Absent, None, StrV(""), StrV("vpc-0abc")}}

TunnelInputs ==
    {Absent, None} \cup
    {RawDict(Opt("enabled", e) @@ Opt("tunnel_token_secret_name", t)) :
        e \in Flags, t \in {Absent, None, StrV("n8n/tunnel-token")}}

AccessInputs ==
    {[cls |-> "AccessConfig", d |-> Opt("type", t) @@ Opt("cloudflare", c)] :
        t \in {Absent, StrV("api_gateway"), StrV("cloudflare"), StrV("vpn")},
        c \in TunnelInputs}

SectionInit ==
    /\ secIn \in ScalingInputs \cup AuthInputs \cup NetworkingInputs \cup AccessInputs
    /\ secOut = [status |-> "pending"]
    /\ LoaderIdle
    /\ FargateIdle
    /\ DriverIdle
    /\ AuxIdle

\* the outcome of building the model cls from secIn.d
Validate(cls, r) ==
    /\ secOut.status = "pending"
    /\ secIn.cls = cls
    /\ secOut' = [status |-> IF r.ok THEN "ok" ELSE "ConfigInvalid",
                  msgs |-> r.msgs, f |-> r.f]
    /\ UNCHANGED secIn
    /\ UNCHANGED <<loaderVars, fargateVars, driverVars, auxVars>>

ValidateScaling == Validate("ScalingConfig", ScalingConfig(secIn.d))

ValidateAuth == Validate("AuthConfig", AuthConfig(secIn.d))

ValidateNetworking == Validate("NetworkingConfig", NetworkingConfig(secIn.d))

ValidateAccess == Validate("AccessConfig", AccessConfig(secIn.d))

SectionNext ==
    \/ ValidateScaling
    \/ ValidateAuth
    \/ ValidateNetworking
    \/ ValidateAccess

SpecSections == SectionInit /\ [][SectionNext]_vars

(***************************************************************************)
(* The composition driver (app.py, create_stacks): it loads the            *)
(* configuration, decides the components, constructs the stacks in a fixed *)
(* order and tags the application.  pc is its position; appStacks holds    *)
(* the local stack variables that are not None; built lists the stacks     *)
(* constructed, in order.                                                  *)
(***************************************************************************)
ComponentLists ==
    {<<"fargate", "efs", "api_gateway">>,
     <<"network", "efs", "fargate", "api_gateway", "monitoring">>,
     <<"monitoring">>,
     <<"network", "compute">>,
     <<"network", "storage", "database", "monitoring">>,
     <<"network", "access", "monitoring">>}

DriverSettings ==
    {RawDict(Opt("features", f) @@ Opt("database", d) @@ Opt("networking", n)
             @@ Opt("monitoring", m)) :
        f \in {Absent} \cup {RawDict([components |-> RawList(c)]) : c \in ComponentLists},
        d \in {Absent, RawDict([type |-> StrV("sqlite")]),
               RawDict([type |-> StrV("postgres")])},
        n \in {Absent, RawDict(EmptyMap)},
        m \in {Absent, RawDict(EmptyMap)}}

DriverStacks ==
    {None} \cup
    {RawDict([minimal |-> RawDict([description |-> StrV("Minimal setup"),
                                   components |-> StackComponents,
                                   settings |-> o])]) :
        o \in {None,
               RawDict([components |-> RawList(<<"network", "storage", "compute",
                                                 "access">>)]),
               RawDict([database |-> RawDict([type |-> StrV("postgres")])])}}

DriverDocs ==
    {Document(ds, de, st) :
        ds \in DriverSettings,
        de \in {None, RawDict([monitoring |-> RawDict(EmptyMap)])},
        st \in DriverStacks}

DriverInit ==
    /\ file \in DriverDocs
    /\ raw = None
    /\ hasConfig = FALSE
    /\ heap = EmptyMap
    /\ hasResult = FALSE
    /\ last = Last("init", "", None, EmptyMap, NoError, {}, NoTrace)
    /\ reads = 0
    /\ muts = 0
    /\ FargateIdle
    /\ SectionIdle
    /\ AuxIdle
    /\ pc = "load"
    /\ appEnvironment \in {"dev", "staging"}
    /\ appStackType \in {None, StrV("minimal"), StrV("enterprise")}
    /\ appComponents = <<>>
    /\ appStacks = {}
    /\ built = <<>>
    /\ monitoringArgs = {}
    /\ tags = <<>>
    /\ raised = ""

\* env_config.settings of the configuration load_config returned
AppSettings ==
    heap[heap[heap[heap[RRoot].f["environments"].a].f[appEnvironment].a].f["settings"].a].f

\* "name in components"
In(name) == \E i \in 1..Len(appComponents) : appComponents[i] = name

NoTypeAttribute == "AttributeError: 'dict' object has no attribute 'type'"

\* settings.database and settings.database.type == DatabaseType.POSTGRES: a
\* mapping that is not a DatabaseConfig has no attribute type
database_is_postgres ==
    LET database == AppSettings["database"]
    IN  IF ~Truthy(heap, database) THEN "no"
        ELSE IF heap[database.a].cls # "DatabaseConfig" THEN "AttributeError"
        ELSE IF heap[database.a].f["type"] = StrV("postgres") THEN "yes" ELSE "no"

\* lines 32-52: a failed load prints the error and exits
LoadConfiguration ==
    /\ pc = "load"
    /\ Load(appEnvironment, appStackType, EmptyMap)
    /\ pc' = IF last'.err = NoError THEN "components" ELSE "exit"
    /\ UNCHANGED <<appEnvironment, appStackType, appComponents, appStacks, built,
                   monitoringArgs, tags, raised>>
    /\ UNCHANGED <<fargateVars, sectionVars, auxVars>>

\* the driver moves to position next with the locals and the stacks given
Goto(next, comps, locals, constructed, args, exception) ==
    /\ pc' = next
    /\ appComponents' = comps
    /\ appStacks' = locals
    /\ built' = constructed
    /\ monitoringArgs' = args
    /\ raised' = exception
    /\ UNCHANGED <<appEnvironment, appStackType, tags>>
    /\ UNCHANGED <<loaderVars, fargateVars, sectionVars, auxVars>>

Raise(exception) ==
    Goto("raised", appComponents, appStacks, built, monitoringArgs, exception)

\* line 57: settings.features and "components" in settings.features
explicit_components ==
    /\ Truthy(heap, AppSettings["features"])
    /\ "components" \in DOMAIN heap[AppSettings["features"].a].f

\* lines 57-67
DetermineComponents ==
    /\ pc = "components"
    /\ LET features == AppSettings["features"]
           default(postgres) ==
               IF postgres = "AttributeError"
               THEN Raise(NoTypeAttribute)
               ELSE Goto("network",
                         <<"network", "storage", "compute", "access">>
                         \o (IF postgres = "yes" THEN <<"database">> ELSE <<>>)
                         \o (IF Truthy(heap, AppSettings["monitoring"])
                             THEN <<"monitoring">> ELSE <<>>),
                         appStacks, built, monitoringArgs, raised)
       IN  IF explicit_components
           THEN Goto("network",
                     heap[heap[features.a].f["components"].a].f["items"].t,
                     appStacks, built, monitoringArgs, raised)
           ELSE default(database_is_postgres)

\* one "Create ... stack" block: when requested, the stack is constructed if the
\* locals it requires are set, else ValueError(message) is raised
Create(here, next, requested, requires, message, name, local) ==
    /\ pc = here
    /\ IF requested = "AttributeError"
       THEN Raise(NoTypeAttribute)
       ELSE IF requested = "no"
       THEN Goto(next, appComponents, appStacks, built, monitoringArgs, raised)
       ELSE IF ~(requires \subseteq appStacks)
       THEN Raise(message)
       ELSE Goto(next, appComponents, appStacks \cup local, Append(built, name),
                 monitoringArgs, raised)

YesNo(b) == IF b THEN "yes" ELSE "no"

\* lines 72-81
CreateNetwork ==
    Create("network", "storage",
           YesNo(In("network") \/ Truthy(heap, AppSettings["networking"])),
           {}, "", "network", {"network_stack"})

\* lines 83-95
CreateStorage ==
    Create("storage", "database", YesNo(In("storage") \/ In("efs")),
           {"network_stack"}, "Storage stack requires network stack",
           "storage", {"storage_stack"})

\* lines 97-119
CreateDatabase ==
    Create("database", "compute",
           IF In("database") THEN "yes" ELSE database_is_postgres,
           {"network_stack"}, "Database stack requires network stack",
           "database", {"database_stack"})

\* the compute block without its prerequisite test
CreateComputeUnchecked ==
    Create("compute", "access", YesNo(In("compute") \/ In("fargate")),
           {}, "", "compute", {"compute_stack"})

\* lines 121-137
CreateCompute ==
    Create("compute", "access", YesNo(In("compute") \/ In("fargate")),
           {"network_stack", "storage_stack"},
           "Compute stack requires network and storage stacks",
           "compute", {"compute_stack"})

\* lines 139-151
CreateAccess ==
    Create("access", "monitoring", YesNo(In("access") \/ In("api_gateway")),
           {"compute_stack"}, "Access stack requires compute stack", "access", {})

\* the monitoring block with a prerequisite test on the compute stack
CreateMonitoringAfterCompute ==
    /\ pc = "monitoring"
    /\ IF In("monitoring") /\ "compute_stack" \notin appStacks
       THEN Raise("Monitoring stack requires compute stack")
       ELSE IF In("monitoring")
       THEN Goto("tags", appComponents, appStacks, Append(built, "monitoring"),
                 appStacks \cap {"compute_stack", "storage_stack", "database_stack"},
                 raised)
       ELSE Goto("tags", appComponents, appStacks, built, monitoringArgs, raised)

\* lines 153-167: the monitoring stack is given the three locals as they are
CreateMonitoring ==
    /\ pc = "monitoring"
    /\ IF In("monitoring")
       THEN Goto("tags", appComponents, appStacks, Append(built, "monitoring"),
                 appStacks \cap {"compute_stack", "storage_stack", "database_stack"},
                 raised)
       ELSE Goto("tags", appComponents, appStacks, built, monitoringArgs, raised)

\* the tagging step without the stack type tag
AddTagsWithoutStackType ==
    /\ pc = "tags"
    /\ pc' = "done"
    /\ tags' = <<<<"Environment", appEnvironment>>,
                 <<"Project", heap[heap[RRoot].f["global_config"].a].f["project_name"].s>>,
                 <<"ManagedBy", "CDK">>>>
    /\ UNCHANGED <<appEnvironment, appStackType, appComponents, appStacks, built,
                   monitoringArgs, raised>>
    /\ UNCHANGED <<loaderVars, fargateVars, sectionVars, auxVars>>

\* lines 169-175
AddTags ==
    /\ pc = "tags"
    /\ pc' = "done"
    /\ tags' = <<<<"Environment", appEnvironment>>,
                 <<"Project", heap[heap[RRoot].f["global_config"].a].f["project_name"].s>>,
                 <<"ManagedBy", "CDK">>>>
               \o (IF Truthy(heap, appStackType)
                   THEN <<<<"StackType", appStackType.s>>>> ELSE <<>>)
    /\ UNCHANGED <<appEnvironment, appStackType, appComponents, appStacks, built,
                   monitoringArgs, raised>>
    /\ UNCHANGED <<loaderVars, fargateVars, sectionVars, auxVars>>

DriverNext ==
    \/ LoadConfiguration
    \/ DetermineComponents
    \/ CreateNetwork
    \/ CreateStorage
    \/ CreateDatabase
    \/ CreateCompute
    \/ CreateAccess
    \/ CreateMonitoring
    \/ AddTags

SpecDriver == DriverInit /\ [][DriverNext]_vars

(***************************************************************************)
(* load_config on documents that may break the schema: in an environment's *)
(* account and region, in a database type, in the settings of another      *)
(* environment or in the defaults, with stack tables of several names.     *)
(***************************************************************************)
UnpairedFargate == RawDict([cpu |-> IntV(256), memory |-> IntV(4096)])

CheckedEnvs ==
    {RawDict([dev |-> RawDict(Opt("account", ac) @@ Opt("region", re)
                              @@ [settings |-> RawDict(Opt("database", db))]),
              production |-> RawDict([account |-> StrV("222222222222"),
                                      region |-> StrV("eu-west-1"),
                                      settings |-> RawDict([fargate |-> fg])])]) :
        ac \in {Absent, None, StrV(""), StrV("111111111111")},
        re \in {Absent, StrV(""), StrV("us-east-1")},
        db \in {Absent, RawDict([type |-> StrV("postgres")]),
                RawDict([type |-> StrV("mysql")])},
        fg \in {RawDict([cpu |-> IntV(1024), memory |-> IntV(2048)]), UnpairedFargate}}

CheckedStacks ==
    {None} \cup
    {RawDict(n :> RawDict([description |-> StrV("A stack type"),
                           components |-> StackComponents,
                           settings |-> None])) : n \in {"minimal", "custom"}}

CheckedDocs ==
    {[global |-> RawDict([project_name |-> StrV("n8n"), organization |-> StrV("acme")]),
      defaults |-> de, environments |-> envs, stacks |-> st] :
        de \in {None, RawDict([fargate |-> DefaultsFargate]),
                RawDict([fargate |-> UnpairedFargate])},
        envs \in CheckedEnvs,
        st \in CheckedStacks}

DocumentsInit ==
    /\ file \in CheckedDocs
    /\ raw = None
    /\ hasConfig = FALSE
    /\ heap = EmptyMap
    /\ hasResult = FALSE
    /\ last = Last("init", "", None, EmptyMap, NoError, {}, NoTrace)
    /\ reads = 0
    /\ muts = 0
    /\ FargateIdle
    /\ SectionIdle
    /\ DriverIdle
    /\ AuxIdle

DocumentsNext ==
    \E e \in {"dev", "staging"},
       s \in {None, StrV("minimal"), StrV("custom"), StrV("enterprise")} :
        LoadConfig(e, s, EmptyMap)

SpecDocuments == DocumentsInit /\ [][DocumentsNext]_vars

(***************************************************************************)
(* Locating and reading the document (config_loader.py, _load_raw_config). *)
(* The directories from the filesystem root to the working directory are   *)
(* 0..disk.cwd, 0 being the root; disk.at is the set of those holding a    *)
(* file with the document's name, disk.given tells whether the given path  *)
(* exists, disk.text is what the document holds.  locator is the loader:   *)
(* its config_file, _raw_config and whether _config is set.                *)
(***************************************************************************)
MaxDepth == 3

Texts == {"valid", "invalid", "malformed", "empty"}

GivenPath == [k |-> "given", i |-> 0]
InDirectory(i) == [k |-> "dir", i |-> i]

\* Path.parent: the root is its own parent
Parent(current) == IF current = 0 THEN 0 ELSE current - 1

\* Path.exists
exists(path) == IF path.k = "given" THEN disk.given ELSE path.i \in disk.at

\* the while loop of _load_raw_config, lines 84-92: NotFound is its else branch
NotFound == [k |-> "none", i |-> 0]
RECURSIVE search_parents(_)
search_parents(current) ==
    IF current = Parent(current) THEN NotFound
    ELSE IF exists(InDirectory(current)) THEN InDirectory(current)
    ELSE search_parents(Parent(current))

\* yaml.safe_load of the text: a mapping, None for an empty document, or YAMLError
safe_load(text) == IF text = "empty" THEN "" ELSE text

Raising(exc, cause, l) == [exc |-> exc, cause |-> cause, l |-> l]

\* lines 79-96; l is the loader
_load_raw_config(l) ==
    LET read(path) ==
            IF path = NotFound THEN Raising("FileNotFoundError", "", l)
            ELSE IF disk.text = "malformed"
            THEN Raising("YAMLError", "", [l EXCEPT !.config_file = path])
            ELSE Raising("", "", [l EXCEPT !.config_file = path,
                                           !.raw = safe_load(disk.text)])
    IN  read(IF exists(l.config_file) THEN l.config_file
             ELSE search_parents(disk.cwd))

\* lines 98-103: N8nConfig(**self._raw_config)
validate_raw(l) ==
    IF l.raw = "" THEN Raising("TypeError", "", l)
    ELSE IF l.raw = "invalid"
    THEN Raising("ValueError", "ValidationError", l)
    ELSE Raising("", "", [l EXCEPT !.config = TRUE])

\* a step and, when it raised nothing, the step after it
Then(r, next(_)) == IF r.exc = "" THEN next(r.l) ELSE r

Finish(op, r) ==
    /\ locator' = r.l
    /\ outcome' = [op |-> op, exc |-> r.exc, cause |-> r.cause]
    /\ UNCHANGED disk
    /\ UNCHANGED <<loaderVars, fargateVars, sectionVars, driverVars, domainVars, breakerVars, retryVars>>

Same(l) == Raising("", "", l)

\* load_config, lines 44-50: the document is read and validated unless cached
ReadForLoadConfig ==
    Finish("load_config",
           Then(IF locator.raw = "" THEN _load_raw_config(locator) ELSE Same(locator),
                LAMBDA l : IF l.config THEN Same(l) ELSE validate_raw(l)))

\* get_available_environments / get_available_stack_types, lines 167-169
ReadForListing ==
    Finish("get_available",
           IF locator.config THEN Same(locator)
           ELSE Then(_load_raw_config(locator), validate_raw))

\* validate_config_file, lines 187-192: every exception becomes a ValueError
ReadForValidateConfigFile ==
    LET wrap(r) == IF r.exc = "" THEN r ELSE Raising("ValueError", r.exc, r.l)
    IN  Finish("validate_config_file",
               wrap(Then(_load_raw_config(locator), validate_raw)))

LocateInit ==
    /\ disk \in [given : BOOLEAN, at : SUBSET (0..MaxDepth), cwd : 0..MaxDepth,
                 text : Texts]
    /\ locator = [config_file |-> GivenPath, raw |-> "", config |-> FALSE]
    /\ outcome = [op |-> "idle", exc |-> "", cause |-> ""]
    /\ LoaderIdle
    /\ FargateIdle
    /\ SectionIdle
    /\ DriverIdle
    /\ DomainIdle
    /\ BreakerIdle
    /\ RetryIdle

LocateNext ==
    \/ ReadForLoadConfig
    \/ ReadForListing
    \/ ReadForValidateConfigFile

SpecLocate == LocateInit /\ [][LocateNext]_vars

(***************************************************************************)
(* The tunnel domain (models.py, CloudflareConfig.validate_domain).  A     *)
(* domain is a sequence of characters; "a" stands for the letters, "1" for *)
(* the digits, "/" for every character the pattern does not mention and    *)
(* "\n" is the newline.                                                    *)
(***************************************************************************)
MaxLen == 6

Characters == {"a", "1", "-", "_", ".", "/", "\n"}

Letters == {"a"}
AlNum == {"a", "1"}

\* [a-zA-Z0-9]([a-zA-Z0-9-_]*[a-zA-Z0-9])?
LabelPattern(w) ==
    /\ Len(w) >= 1
    /\ w[1] \in AlNum
    /\ w[Len(w)] \in AlNum
    /\ \A i \in 1..Len(w) : w[i] \in AlNum \cup {"-", "_"}

\* [a-zA-Z]{2,}
TldPattern(w) == Len(w) >= 2 /\ \A i \in 1..Len(w) : w[i] \in Letters

\* label (\. label)* matches w[1..n]
RECURSIVE LabelsPattern(_, _)
LabelsPattern(w, n) ==
    \/ LabelPattern(SubSeq(w, 1, n))
    \/ \E j \in 2..n :
          /\ w[j] = "."
          /\ LabelPattern(SubSeq(w, j + 1, n))
          /\ LabelsPattern(w, j - 1)

\* ^ label (\. label)* \. tld, up to the end of w
FullPattern(w) ==
    \E j \in 2..Len(w) :
        /\ w[j] = "."
        /\ TldPattern(SubSeq(w, j + 1, Len(w)))
        /\ LabelsPattern(w, j - 1)

\* re.match(pattern, v): $ matches at the end and before a newline that ends v
re_match(v) ==
    \/ FullPattern(v)
    \/ Len(v) >= 1 /\ v[Len(v)] = "\n" /\ FullPattern(SubSeq(v, 1, Len(v) - 1))

\* lines 134-151: an empty value is not tested
validate_domain(v) == IF v # <<>> /\ ~re_match(v) THEN "rejected" ELSE "accepted"

DomainInit ==
    /\ tunnel_domain \in UNION {[1..n -> Characters] : n \in 0..MaxLen}
    /\ accepted = "idle"
    /\ LoaderIdle
    /\ FargateIdle
    /\ SectionIdle
    /\ DriverIdle
    /\ LocateIdle
    /\ BreakerIdle
    /\ RetryIdle

\* CloudflareConfig(enabled=True, tunnel_token_secret_name=..., tunnel_domain=v)
ValidateDomain ==
    /\ accepted = "idle"
    /\ accepted' = validate_domain(tunnel_domain)
    /\ UNCHANGED tunnel_domain
    /\ UNCHANGED <<loaderVars, fargateVars, sectionVars, driverVars, locateVars, breakerVars, retryVars>>

DomainNext == ValidateDomain

SpecDomain == DomainInit /\ [][DomainNext]_vars

(***************************************************************************)
(* The circuit-breaker handler (constructs/resilient_n8n.py, the inline    *)
(* code of _create_circuit_breaker).  circuit is the item of one service   *)
(* in the DynamoDB table; clock is the time in minutes.  Invocations of    *)
(* the function run concurrently: each call to the table is one step, and  *)
(* calls[i] is the position of invocation i, which waits in "update" when  *)
(* a check has read an open circuit whose time has come and has not yet    *)
(* written.  opening remembers when the circuit was last opened and        *)
(* whether a success was recorded since.                                   *)
(***************************************************************************)
FAILURE_THRESHOLD == 5

\* timedelta(minutes=5)
OpenMinutes == 5

MaxClock == 7

Invocations == {1, 2}

\* the failure_count of a record_failure event: 1 stands for the default
FailureCounts == {1, FAILURE_THRESHOLD, FAILURE_THRESHOLD + 1}

NoItem == [present |-> FALSE, state |-> "", open_time |-> 0, failure_count |-> 0]

\* item.get('state', 'closed')
StateOf(stored) == IF stored.present /\ stored.state # "" THEN stored.state ELSE "closed"

Reply(action, st, allow) == [action |-> action, state |-> st, allow |-> allow]

BreakerInit ==
    /\ circuit = NoItem
    /\ clock = 0
    /\ calls = [i \in Invocations |-> "idle"]
    /\ opening = [at |-> 0, opened |-> FALSE, closed |-> FALSE]
    /\ reply = Reply("", "", FALSE)
    /\ LoaderIdle
    /\ FargateIdle
    /\ SectionIdle
    /\ DriverIdle
    /\ LocateIdle
    /\ DomainIdle
    /\ RetryIdle

BreakerFrame ==
    UNCHANGED <<loaderVars, fargateVars, sectionVars, driverVars, locateVars, domainVars,
                retryVars>>

\* a minute passes
Tick ==
    /\ clock < MaxClock
    /\ clock' = clock + 1
    /\ UNCHANGED <<circuit, calls, opening, reply>>
    /\ BreakerFrame

\* action 'check', lines 147-156 and 165-168: get_item and the decision; an open
\* circuit older than five minutes is left to be updated
CheckGetItem(i) ==
    /\ calls[i] = "idle"
    /\ IF StateOf(circuit) = "open" /\ clock - circuit.open_time > OpenMinutes
       THEN /\ calls' = [calls EXCEPT ![i] = "update"]
            /\ UNCHANGED reply
       ELSE /\ reply' = Reply("check", StateOf(circuit), StateOf(circuit) # "open")
            /\ UNCHANGED calls
    /\ UNCHANGED <<circuit, clock, opening>>
    /\ BreakerFrame

\* action 'check', lines 158-164: update_item SET state = half-open, and return
CheckUpdateItem(i) ==
    /\ calls[i] = "update"
    /\ circuit' = [circuit EXCEPT !.present = TRUE, !.state = "half-open"]
    /\ calls' = [calls EXCEPT ![i] = "idle"]
    /\ reply' = Reply("check", "half-open", TRUE)
    /\ UNCHANGED <<clock, opening>>
    /\ BreakerFrame

\* action 'record_failure', lines 170-200
RecordFailure(i, failure_count) ==
    /\ calls[i] = "idle"
    /\ IF failure_count >= FAILURE_THRESHOLD
       THEN /\ circuit' = [present |-> TRUE, state |-> "open", open_time |-> clock,
                           failure_count |-> failure_count]
            /\ opening' = [at |-> clock, opened |-> TRUE, closed |-> FALSE]
            /\ reply' = Reply("record_failure", "open", FALSE)
       ELSE /\ reply' = Reply("record_failure", "closed", FALSE)
            /\ UNCHANGED <<circuit, opening>>
    /\ UNCHANGED <<clock, calls>>
    /\ BreakerFrame

\* action 'record_success', lines 202-213: update_item keeps the other attributes
RecordSuccess(i) ==
    /\ calls[i] = "idle"
    /\ circuit' = [circuit EXCEPT !.present = TRUE, !.state = "closed",
                                  !.failure_count = 0]
    /\ opening' = [opening EXCEPT !.closed = TRUE]
    /\ reply' = Reply("record_success", "closed", FALSE)
    /\ UNCHANGED <<clock, calls>>
    /\ BreakerFrame

\* any other action, line 215
InvalidAction(i) ==
    /\ calls[i] = "idle"
    /\ reply' = Reply("error", "", FALSE)
    /\ UNCHANGED <<circuit, clock, calls, opening>>
    /\ BreakerFrame

BreakerNext ==
    \/ Tick
    \/ \E i \in Invocations : CheckGetItem(i)
    \/ \E i \in Invocations : CheckUpdateItem(i)
    \/ \E i \in Invocations, n \in FailureCounts : RecordFailure(i, n)
    \/ \E i \in Invocations : RecordSuccess(i)
    \/ \E i \in Invocations : InvalidAction(i)

SpecBreaker == BreakerInit /\ [][BreakerNext]_vars

(***************************************************************************)
(* The retry handler (constructs/resilient_n8n.py, the inline code of      *)
(* _create_retry_handler).  request is the body of the message on the      *)
(* retry queue, queued says that it waits to be handled, dlq is the        *)
(* dead-letter queue and response what the handler returned.  retries      *)
(* counts the handlings that reported a retry and first is the count the   *)
(* request started with.  Delays are in tenths of a second.                *)
(***************************************************************************)
MAX_RETRIES == 3

\* the largest retry_count a request starts with
MaxCount == 5

WorkflowIds == {"", "wf-1", "wf-2"}
WebhookUrls == {"", "https://n8n/webhook/a"}
Payloads == {"", "{}"}

Requests ==
    [has_count : {TRUE}, retry_count : 0..MaxCount, workflow_id : WorkflowIds,
     webhook_url : WebhookUrls, payload : Payloads]
    \cup [has_count : {FALSE}, retry_count : {0}, workflow_id : WorkflowIds,
          webhook_url : WebhookUrls, payload : Payloads]

\* request.get('retry_count', 0)
retry_count_of(req) == IF req.has_count THEN req.retry_count ELSE 0

Min(a, b) == IF a <= b THEN a ELSE b

\* min(base_delay * (2 ** retry_count), max_delay), base_delay=1, max_delay=300
backoff_delay(retry_count) == Min(1 * (2 ^ retry_count), 300)

\* random.uniform(0, delay * 0.1) at its two ends, in tenths of the delay
Jitters == {0, 1}

\* exponential_backoff(retry_count): delay + jitter
exponential_backoff(retry_count, jitter) ==
    10 * backoff_delay(retry_count) + jitter * backoff_delay(retry_count)

\* json.dumps of the dead-letter message, lines 302-309
DeadLetter(req) ==
    [workflow_id |-> req.workflow_id, webhook_url |-> req.webhook_url,
     payload |-> req.payload, retry_count |-> retry_count_of(req),
     reason |-> "Max retries exceeded"]

\* a handler that still retries a request whose count equals the maximum
handler_past_maximum(req, letters, jitter) ==
    IF retry_count_of(req) > MAX_RETRIES
    THEN [dlq |-> Append(letters, DeadLetter(req)),
          response |-> [status |-> "failed", retry_count |-> 0, delay |-> 0],
          retried |-> FALSE]
    ELSE [dlq |-> letters,
          response |-> [status |-> "retried", retry_count |-> retry_count_of(req) + 1,
                        delay |-> exponential_backoff(retry_count_of(req), jitter)],
          retried |-> TRUE]

\* handler(event, context), lines 287-339: what it sends and returns
handler(req, letters, jitter) ==
    IF retry_count_of(req) >= MAX_RETRIES
    THEN [dlq |-> Append(letters, DeadLetter(req)),
          response |-> [status |-> "failed", retry_count |-> 0, delay |-> 0],
          retried |-> FALSE]
    ELSE [dlq |-> letters,
          response |-> [status |-> "retried", retry_count |-> retry_count_of(req) + 1,
                        delay |-> exponential_backoff(retry_count_of(req), jitter)],
          retried |-> TRUE]

RetryInit ==
    /\ request \in Requests
    /\ queued = TRUE
    /\ dlq = <<>>
    /\ response = [status |-> "", retry_count |-> 0, delay |-> 0]
    /\ retries = 0
    /\ first = retry_count_of(request)
    /\ LoaderIdle
    /\ FargateIdle
    /\ SectionIdle
    /\ DriverIdle
    /\ LocateIdle
    /\ DomainIdle
    /\ BreakerIdle

RetryFrame ==
    UNCHANGED <<loaderVars, fargateVars, sectionVars, driverVars, locateVars, domainVars,
                breakerVars>>

\* the queue delivers the message and the handler runs
Handle ==
    /\ queued
    /\ \E jitter \in Jitters :
          LET done(r) ==
                /\ dlq' = r.dlq
                /\ response' = r.response
                /\ retries' = IF r.retried THEN retries + 1 ELSE retries
          IN  done(handler(request, dlq, jitter))
    /\ queued' = FALSE
    /\ UNCHANGED <<request, first>>
    /\ RetryFrame

\* the sender puts the request back on the retry queue with the returned count
Resubmit ==
    /\ ~queued
    /\ response.status = "retried"
    /\ request' = [request EXCEPT !.has_count = TRUE,
                                  !.retry_count = response.retry_count]
    /\ queued' = TRUE
    /\ UNCHANGED <<dlq, response, retries, first>>
    /\ RetryFrame

RetryNext ==
    \/ Handle
    \/ Resubmit

\* every message on the retry queue starts the function, and the sender
\* resubmits each time
SpecRetry == RetryInit /\ [][RetryNext]_vars /\ WF_vars(Handle) /\ WF_vars(Resubmit)

(***************************************************************************)
(* Properties.                                                             *)
(***************************************************************************)
LoadReturned == last.op = "load_config" /\ last.err = NoError

\* the document's parts, as the loader read them
DocEnvironments == DOMAIN file["environments"].d
DocStacks == IF Given(file, "stacks") THEN DOMAIN file["stacks"].d ELSE {}
DocEnvSettings(e) == file["environments"].d[e].d["settings"].d
DocDefaultsDefine(x) == Given(file, "defaults") /\ Given(file["defaults"].d, x)
DocOverlay(st) ==
    IF st.k = "str" /\ st.s \in DocStacks /\ Given(file["stacks"].d[st.s].d, "settings")
    THEN file["stacks"].d[st.s].d["settings"].d
    ELSE EmptyMap

\* the environment settings of the returned configuration
ResultEnvironments == heap[heap[RRoot].f["environments"].a].f
ResultSettingsAddr == heap[ResultEnvironments[last.env].a].f["settings"].a
ResultSettings == heap[ResultSettingsAddr].f

\* the objects of the loader's cache
CacheDefaultsRef(x) ==
    IF heap[CRoot].f["defaults"].k = "ref" THEN heap[heap[CRoot].f["defaults"].a].f[x]
    ELSE None
CacheEnvSettings(e) ==
    heap[heap[heap[heap[CRoot].f["environments"].a].f[e].a].f["settings"].a].f
CacheOverlay(st) ==
    IF st.k # "str" THEN EmptyMap
    ELSE LET sc == get_stack_config(heap, st.s)
         IN  IF sc.k = "ref" /\ heap[sc.a].f["settings"].k = "ref"
             THEN heap[heap[sc.a].f["settings"].a].f
             ELSE EmptyMap

\* the value of the settings of environment e in the configuration held in h
SettingsIn(h, e) ==
    Val(h, h[h[h[RRoot].f["environments"].a].f[e].a].f["settings"].a)

C2_StackComponentsInFeatures ==
    (LoadReturned /\ last.st.k = "str") =>
        /\ ResultSettings["features"].k = "ref"
        /\ "components" \in DOMAIN heap[ResultSettings["features"].a].f
        /\ ValOf(heap, heap[ResultSettings["features"].a].f["components"])
           = [k |-> "obj",
              o |-> Obj("list",
                        [items |-> Tup(file["stacks"].d[last.st.s].d["components"].t)])]

\* the cache with one key taken out of a stack type's settings overlay
WithoutOverlayKey(h, st, key) ==
    LET sa == h[get_stack_config(h, st).a].f["settings"].a
    IN  [h EXCEPT ![sa].f = Restrict(@, DOMAIN @ \ {key})]

\* C3: a key of the stack type's settings overlay that is neither "components"
\* nor a declared field of EnvironmentSettings does not make load_config raise,
\* and the resolved settings equal those resolved with the key left out of the
\* overlay.
C3_UnknownOverlayKeysIgnored ==
    (last.op = "load_config" /\ last.env \in DocEnvironments
     /\ last.st.k = "str" /\ last.st.s \in DocStacks) =>
        \A key \in DOMAIN CacheOverlay(last.st) \ (SettingsFields \cup {"components"}) :
            LET without == load_config(
                               Collect(WithoutOverlayKey(heap, last.st.s, key), {CRoot}),
                               last.env, last.st, last.ov)
            IN  /\ last.err = NoError
                /\ without.err = NoError
                /\ SettingsIn(heap, last.env) = SettingsIn(without.h, last.env)

\* the value the priority order caller override > stack overlay > environment >
\* defaults section gives a settings field
ExpectedByPriority(x) ==
    LET overlay == CacheOverlay(last.st)
        env == CacheEnvSettings(last.env)[x]
    IN  IF x \in DOMAIN last.ov THEN last.ov[x]
        ELSE IF x \in DOMAIN overlay /\ overlay[x].k # "None" THEN ValOf(heap, overlay[x])
        ELSE IF env.k # "None" THEN ValOf(heap, env)
        ELSE IF x \in {"fargate", "monitoring", "backup"}
        THEN ValOf(heap, CacheDefaultsRef(x))
        ELSE None

\* C4: every settings section of the returned environment has the value of the
\* highest-priority source that supplies it: caller override, then the stack
\* type's overlay, then the environment's own section, then (fargate,
\* monitoring, backup) the defaults section.
C4_SourcePriority ==
    LoadReturned =>
        \A x \in SettingsFields \ {"features"} :
            ValOf(heap, ResultSettings[x]) = ExpectedByPriority(x)

\* the document as validation builds it
Validated == N8nConfig("cache", file)

\* C5: a returned configuration has exactly the requested environment, and its
\* global config, defaults, stack table and shared resources equal those of the
\* loader's validated document (which, as long as no caller has written to a
\* returned object, is the document as validation built it).
C5_ScopedToRequestedEnvironment ==
    LoadReturned =>
        /\ DOMAIN ResultEnvironments = {last.env}
        /\ \A x \in {"global_config", "defaults", "stacks", "shared_resources"} :
              /\ ValOf(heap, heap[RRoot].f[x]) = ValOf(heap, heap[CRoot].f[x])
              /\ muts = 0 =>
                    ValOf(heap, heap[RRoot].f[x]) = ValOf(Validated, Validated[CRoot].f[x])

\* C5 witness: dev returned from a document with two environments, a defaults
\* section and a stack table, with a stack type and overrides applied.
C5_Witness ==
    /\ LoadReturned /\ last.env = "dev"
    /\ last.st = StrV("minimal") /\ DOMAIN last.ov # {}
    /\ DOMAIN heap[heap[CRoot].f["environments"].a].f = {"dev", "production"}
    /\ heap[RRoot].f["defaults"].k = "ref"
    /\ heap[RRoot].f["stacks"].k = "ref"
    /\ DOMAIN ResultEnvironments = {"dev"}

\* C6: load_config raises EnvironmentNotFound naming the environment exactly
\* when the document lacks it, otherwise StackTypeNotFound naming the stack type
\* exactly when one was requested that the stack table lacks, and otherwise
\* returns a configuration.
C6_NotFoundErrors ==
    last.op = "load_config" =>
        last.err = IF last.env \notin DocEnvironments
                   THEN Error("EnvironmentNotFound", last.env)
                   ELSE IF last.st.k = "str" /\ last.st.s \notin DocStacks
                   THEN Error("StackTypeNotFound", last.st.s)
                   ELSE NoError

\* C8: on one loader the document is read at most once, whatever operations
\* are called.
C8_DocumentReadOnce == reads <= 1

\* the configuration a fresh loader returns for the arguments of the last call
FreshResult ==
    Val(load_config(Validated, last.env, last.st, last.ov).h, RRoot)

\* C9: whatever a caller did to a configuration it was given, a later
\* load_config on the same loader returns what a loader nobody touched returns.
C9_ReturnedConfigIsolated ==
    LoadReturned => Val(heap, RRoot) = FreshResult

\* C10: for a cpu of the pairing table, validation passes only with a memory
\* value (given or default) listed for that cpu, and every other memory value
\* is rejected with a message naming both values.
C10_OnlyListedMemoryValidates ==
    (fgOut.status # "pending" /\ CpuInTable(fgOut.cpu)) =>
        IF MemoryListed(fgOut.cpu, fgOut.memory)
        THEN fgOut.status = "ok"
        ELSE /\ fgOut.status = "ConfigInvalid"
             /\ \E m \in fgOut.msgs : m.a = fgOut.cpu /\ m.b = fgOut.memory

\* C11: a compute-sizing section whose cpu is not a cpu of the pairing table is
\* rejected whatever its memory, so every (cpu, memory) that validates is one of
\* the listed pairs.
C11_OnlyWhitelistedPairsValidate ==
    fgOut.status \in {"ok", "ConfigInvalid"} =>
        /\ (~CpuInTable(fgOut.cpu) => fgOut.status = "ConfigInvalid")
        /\ (fgOut.status = "ok" => MemoryListed(fgOut.cpu, fgOut.memory))

\* a section of class cls has been validated
Validated_(cls) == secIn.cls = cls /\ secOut.status \in {"ok", "ConfigInvalid"}

\* C12: a scaling section that validates has min_tasks <= max_tasks however the
\* two fields are given or left to their default; min_tasks > max_tasks is
\* rejected, and equal counts validate.
C12_MinTasksAtMostMaxTasks ==
    Validated_("ScalingConfig") =>
        LET lo == secOut.f["min_tasks"].i
            hi == secOut.f["max_tasks"].i
        IN  /\ (secOut.status = "ok" => lo <= hi)
            /\ (lo > hi => secOut.status = "ConfigInvalid")
            /\ ((lo = hi /\ lo >= 1) => secOut.status = "ok")

\* C13: an auth section with oauth_enabled true and no provider, given as null
\* or left out, is rejected.
C13_OAuthNeedsProvider ==
    (/\ Validated_("AuthConfig")
     /\ secOut.f["oauth_enabled"].b
     /\ secOut.f["oauth_provider"] = None) => secOut.status = "ConfigInvalid"

\* C14: a networking section with use_existing_vpc true and no vpc_id, given as
\* null or left out, is rejected.
C14_ExistingVpcNeedsId ==
    (/\ Validated_("NetworkingConfig")
     /\ secOut.f["use_existing_vpc"].b
     /\ secOut.f["vpc_id"] = None) => secOut.status = "ConfigInvalid"

\* the tunnel sub-section is given in the access section as a mapping
TunnelSupplied == "cloudflare" \in DOMAIN secIn.d /\ secIn.d["cloudflare"].k = "dict"

\* C15: a validated access section of the tunnel type has a tunnel configuration
\* that is enabled, with a token secret name unless the sub-section was omitted;
\* a supplied sub-section that ends up enabled without a token secret name fails
\* validation naming tunnel_token_secret_name.
C15_TunnelNeedsToken ==
    (Validated_("AccessConfig") /\ secOut.f["type"] = StrV("cloudflare")) =>
        LET tunnel == secOut.f["cloudflare"]
        IN  /\ secOut.status = "ok" =>
                /\ tunnel.k = "obj"
                /\ tunnel.o.f["enabled"] = BoolV(TRUE)
                /\ (Falsy(tunnel.o.f["tunnel_token_secret_name"]) => ~TunnelSupplied)
            /\ (TunnelSupplied /\ Falsy(tunnel.o.f["tunnel_token_secret_name"])) =>
                /\ secOut.status = "ConfigInvalid"
                /\ validate_tunnel_token(
                       [tunnel.o.f EXCEPT !["enabled"] = BoolV(TRUE)]) \subseteq secOut.msgs

(***************************************************************************)
(* The composition driver.                                                 *)
(***************************************************************************)
PcOrder ==
    <<"load", "components", "network", "storage", "database", "compute", "access",
      "monitoring", "tags", "done">>

Index(seq, x) == CHOOSE i \in 1..Len(seq) : seq[i] = x

\* the driver has left the block of component name behind and goes on
Past(name) ==
    pc \in {PcOrder[i] : i \in (Index(PcOrder, name) + 1)..Len(PcOrder)}

Built(name) == \E i \in 1..Len(built) : built[i] = name

BuiltBefore(a, b) ==
    \E i, j \in 1..Len(built) : i < j /\ built[i] = a /\ built[j] = b

\* the components from name on, in construction order
From(name) ==
    {PcOrder[i] : i \in Index(PcOrder, name)..Index(PcOrder, "monitoring")}

Requires ==
    [storage |-> {"network"}, database |-> {"network"},
     compute |-> {"network", "storage"}, access |-> {"compute"}]

DependencyError ==
    [storage |-> "Storage stack requires network stack",
     database |-> "Database stack requires network stack",
     compute |-> "Compute stack requires network and storage stacks",
     access |-> "Access stack requires compute stack"]

\* the driver's condition for constructing component name
Requested(name) ==
    CASE name = "network" -> In("network") \/ Truthy(heap, AppSettings["networking"])
      [] name = "storage" -> In("storage") \/ In("efs")
      [] name = "database" -> In("database") \/ database_is_postgres = "yes"
      [] name = "compute" -> In("compute") \/ In("fargate")
      [] name = "access" -> In("access") \/ In("api_gateway")
      [] name = "monitoring" -> In("monitoring")

\* C16: a component is constructed only after its prerequisites (storage and
\* database after network, compute after network and storage, access after
\* compute); a requested component with a prerequisite that was not constructed
\* makes the driver raise that component's construction error, the component
\* is not constructed and neither is any component after it.
C16_PrerequisitesBeforeConstruction ==
    \A x \in DOMAIN Requires :
        /\ Built(x) => \A r \in Requires[x] : BuiltBefore(r, x)
        /\ (Past(x) /\ Requested(x)) => \A r \in Requires[x] : Built(r)
        /\ (raised = DependencyError[x]) =>
              /\ pc = "raised"
              /\ Requested(x)
              /\ \E r \in Requires[x] : ~Built(r)
              /\ \A y \in From(x) : ~Built(y)

C16_Witness ==
    /\ raised = DependencyError["compute"]
    /\ built = <<"network">>
    /\ In("compute")

\* the driver has resolved the environment and decided the components
Decided == pc \notin {"load", "exit", "components"}

Constructed == {built[i] : i \in 1..Len(built)}

\* the database type of the resolved environment is postgres
ResolvedPostgres ==
    /\ AppSettings["database"] # None
    /\ "type" \in DOMAIN heap[AppSettings["database"].a].f
    /\ heap[AppSettings["database"].a].f["type"] = StrV("postgres")

\* C17: without an explicit components list the driver constructs exactly
\* network, storage, compute and access, database iff the resolved database type
\* is postgres and monitoring iff the resolved environment has a monitoring
\* section; no run under this policy ends with an error.
C17_DefaultPolicy ==
    (Decided /\ ~explicit_components) =>
        /\ pc # "raised"
        /\ pc \in {"tags", "done"} =>
              Constructed = {"network", "storage", "compute", "access"}
                            \cup (IF ResolvedPostgres THEN {"database"} ELSE {})
                            \cup (IF AppSettings["monitoring"] # None
                                  THEN {"monitoring"} ELSE {})

Alias == [storage |-> "efs", compute |-> "fargate", access |-> "api_gateway"]

\* the components list names the component, under its name or its alias
Named(name) == In(name) \/ (name \in DOMAIN Alias /\ In(Alias[name]))

\* C18: with an explicit components list the driver constructs a component only
\* if the list names it (efs for storage, fargate for compute, api_gateway for
\* access), whatever the other settings sections contain.
C18_ExplicitListDecides ==
    (Decided /\ explicit_components) => \A x \in Constructed : Named(x)

\* the stack object the driver keeps for a component
StackOf == [compute |-> "compute_stack", storage |-> "storage_stack",
            database |-> "database_stack"]

\* C19: a requested monitoring component is constructed once the driver reaches
\* it, after every other requested component, with the compute, storage and
\* database stacks that were constructed and an absent reference for each of the
\* others; no error is raised for monitoring.
C19_MonitoringToleratesAbsence ==
    /\ (pc \in {"tags", "done"} /\ In("monitoring")) => Built("monitoring")
    /\ Built("monitoring") =>
          /\ built[Len(built)] = "monitoring"
          /\ \A x \in From("network") \ {"monitoring"} :
                Requested(x) => BuiltBefore(x, "monitoring")
          /\ \A x \in DOMAIN StackOf : (StackOf[x] \in monitoringArgs) <=> Built(x)
    /\ (pc = "raised") =>
          raised \in {DependencyError[x] : x \in DOMAIN DependencyError}
                     \cup {NoTypeAttribute}

C19_Witness ==
    /\ pc = "done"
    /\ Built("monitoring")
    /\ monitoringArgs = {"storage_stack", "database_stack"}
    /\ ~Built("compute")

\* C20: tags are applied only once every requested component is constructed;
\* they are Environment (the environment name), Project (the document's project
\* name) and ManagedBy, with StackType exactly when a stack type was requested;
\* a run that ended with an error has applied no tag.
C20_TagsAfterConstruction ==
    /\ (tags # <<>>) =>
          /\ pc = "done"
          /\ \A x \in From("network") : Requested(x) => Built(x)
    /\ (pc = "done") =>
          tags = <<<<"Environment", appEnvironment>>,
                   <<"Project", file.global.d["project_name"].s>>,
                   <<"ManagedBy", "CDK">>>>
                 \o (IF appStackType = None THEN <<>>
                     ELSE <<<<"StackType", appStackType.s>>>>)
    /\ (pc \in {"raised", "exit"}) => tags = <<>>

C20_Witness ==
    /\ pc = "done"
    /\ appStackType = StrV("minimal")
    /\ tags[4] = <<"StackType", "minimal">>
    /\ Built("access")

(***************************************************************************)
(* Locating and reading the document.                                      *)
(***************************************************************************)
\* the directories from the working directory up to and including the root
\* that hold a file with the document's name
Holding == disk.at \cap (0..disk.cwd)

\* the nearest place of the document: the given path, else the deepest holder
Nearest ==
    IF disk.given THEN GivenPath
    ELSE InDirectory(CHOOSE i \in Holding : \A j \in Holding : j <= i)

\* C21: load_config fails with FileNotFoundError exactly when the document is
\* neither at the given path nor in the working directory or one of its
\* ancestors, the root included; otherwise the nearest one is the one read.
C21_NotFoundExactlyWhenNowhere ==
    (outcome.op = "load_config") =>
        /\ (outcome.exc = "FileNotFoundError") <=> (~disk.given /\ Holding = {})
        /\ (disk.given \/ Holding # {}) => locator.config_file = Nearest

\* the loader has an existing document to read
Located == exists(locator.config_file)

\* C22: in every operation that reads the document a missing document is
\* reported by FileNotFoundError, malformed syntax by the parser's YAMLError and
\* a schema violation by the ValueError of _validate_config.
C22_FailureKindsDistinct ==
    (outcome.op # "idle") =>
        /\ (~disk.given /\ Holding = {}) =>
              (outcome.exc = "FileNotFoundError" /\ outcome.cause = "")
        /\ (Located /\ disk.text = "malformed") =>
              (outcome.exc = "YAMLError" /\ outcome.cause = "")
        /\ (Located /\ disk.text = "invalid") =>
              (outcome.exc = "ValueError" /\ outcome.cause = "ValidationError")

(***************************************************************************)
(* The tunnel domain.                                                      *)
(***************************************************************************)
\* the labels of w: the pieces between its dots
RECURSIVE Labels(_)
Labels(w) ==
    IF \A i \in 1..Len(w) : w[i] # "." THEN <<w>>
    ELSE LET j == CHOOSE i \in 1..Len(w) : w[i] = "." /\ \A k \in 1..(i - 1) : w[k] # "."
         IN  <<SubSeq(w, 1, j - 1)>> \o Labels(SubSeq(w, j + 1, Len(w)))

\* strict hostname syntax: at least two labels of alphanumerics and hyphens,
\* none empty, none starting or ending with a hyphen, the last one alphabetic
\* and of 2 characters or more
Hostname(w) ==
    LET ls == Labels(w)
    IN  /\ Len(ls) >= 2
        /\ \A n \in 1..Len(ls) :
              /\ ls[n] # <<>>
              /\ \A i \in 1..Len(ls[n]) : ls[n][i] \in AlNum \cup {"-"}
              /\ ls[n][1] # "-"
              /\ ls[n][Len(ls[n])] # "-"
        /\ Len(ls[Len(ls)]) >= 2
        /\ \A i \in 1..Len(ls[Len(ls)]) : ls[Len(ls)][i] \in Letters

\* C25: a non-empty tunnel domain is accepted if and only if it is a hostname
\* in the strict syntax.
C25_DomainSyntax ==
    (accepted # "idle" /\ tunnel_domain # <<>>) =>
        ((accepted = "accepted") <=> Hostname(tunnel_domain))

(***************************************************************************)
(* Documents that may break the schema.                                    *)
(***************************************************************************)
\* the Enum StackType of models.py, which no field and no loader code refers to
StackType == {"minimal", "standard", "enterprise"}

\* the database types the environments of the document give
GivenDatabaseTypes ==
    {DocEnvSettings(e)["database"].d["type"].s :
        e \in {x \in DocEnvironments : Given(DocEnvSettings(x), "database")}}

\* C23: a document passes validation only if its database types and the names
\* of its stack table are members of their closed sets, and load_config returns
\* only for a stack type of the closed set.
C23_ClosedSets ==
    /\ hasConfig => (GivenDatabaseTypes \subseteq DatabaseType /\ DocStacks \subseteq StackType)
    /\ LoadReturned => (last.st = None \/ last.st.s \in StackType)

\* C24: in a document that passed validation every environment has a non-empty
\* account string and a non-empty region string.
C24_AccountAndRegionNonEmpty ==
    hasConfig =>
        \A e \in DocEnvironments : \A x \in {"account", "region"} :
            /\ Given(file["environments"].d[e].d, x)
            /\ file["environments"].d[e].d[x] # StrV("")

\* a typed section among secs of mapping d that its model rejects
SectionBroken(secs, d) ==
    \E x \in secs : Given(d, x) /\ ~SectionModel(x, d[x].d).ok

\* some schema-typed part of the document is invalid: a section of the
\* defaults, a section of any environment, or an environment's account or region
SchemaViolated ==
    \/ Given(file, "defaults") /\ SectionBroken(Sections, file["defaults"].d)
    \/ \E e \in DocEnvironments :
          \/ SectionBroken(EnvSections, DocEnvSettings(e))
          \/ ~Given(file["environments"].d[e].d, "account")
          \/ ~Given(file["environments"].d[e].d, "region")

\* C26: load_config fails with ConfigInvalid exactly when some schema-typed part
\* of the document is invalid, wherever it is, whether or not the requested
\* environment and stack type exist; nothing is resolved or returned then.
C26_WholeDocumentValidatedFirst ==
    (last.op = "load_config") =>
        /\ SchemaViolated <=> (last.err = Error("ConfigInvalid", ""))
        /\ SchemaViolated => (~hasConfig /\ ~hasResult /\ heap = EmptyMap)

C26_Witness ==
    /\ last.op = "load_config"
    /\ last.err = Error("ConfigInvalid", "")
    /\ last.env = "staging"
    /\ last.st = StrV("enterprise")
    /\ ~Given(file, "defaults")
    /\ ~SectionBroken(EnvSections, DocEnvSettings("dev"))
    /\ Given(file["environments"].d["dev"].d, "account")
    /\ Given(file["environments"].d["dev"].d, "region")
    /\ SectionBroken(EnvSections, DocEnvSettings("production"))

(***************************************************************************)
(* The returned configuration and the loader's cache.                      *)
(***************************************************************************)
\* the object at address a is a section of the type of field x that obeys the
\* cpu/memory pairing
TypedSection(x, a) ==
    /\ heap[a].cls = SectionCls(x)
    /\ (x = "fargate" /\ CpuInTable(heap[a].f["cpu"].i)) =>
          MemoryListed(heap[a].f["cpu"].i, heap[a].f["memory"].i)

\* C27: in every returned configuration each present settings section of the
\* resolved environment is a typed record of its section type that obeys the
\* schema's rules, whatever stack type and overrides were applied.
C27_ReturnedSectionsValidated ==
    LoadReturned =>
        \A x \in EnvSections :
            ResultSettings[x] # None => TypedSection(x, ResultSettings[x].a)

\* C28: as long as only the loader's operations run, the loader's cached
\* document stays the document as validation built it: listing the environments
\* gives every environment name of the document, and load_config returns what a
\* fresh loader returns for the same arguments.
C28_CacheUnchangedByLoadConfig ==
    (muts = 0) =>
        /\ hasConfig => Val(heap, CRoot) = Val(Validated, CRoot)
        /\ (last.op = "get_available_environments" /\ last.err = NoError) =>
              last.names = DocEnvironments
        /\ LoadReturned => Val(heap, RRoot) = FreshResult

\* C28 witness: load_config returned dev with a stack type's overlay and
\* overrides applied, the result differs from the cached dev environment, and
\* the cache is still the validated document.
C28_Witness ==
    /\ muts = 0
    /\ LoadReturned
    /\ last.env = "dev"
    /\ last.st = StrV("minimal")
    /\ CacheOverlay(last.st) # EmptyMap
    /\ DOMAIN last.ov # {}
    /\ ValOf(heap, ResultEnvironments["dev"])
         # ValOf(heap, heap[heap[CRoot].f["environments"].a].f["dev"])
    /\ Val(heap, CRoot) = Val(Validated, CRoot)

(***************************************************************************)
(* The circuit breaker.                                                    *)
(***************************************************************************)
\* the circuit was opened, no success was recorded since, and no more than
\* five minutes have passed since it was last opened
RecentlyOpened ==
    opening.opened /\ ~opening.closed /\ clock - opening.at <= OpenMinutes

\* a check returns in this step
CheckReturns ==
    \E i \in Invocations :
        \/ CheckGetItem(i) /\ calls'[i] = "idle"
        \/ CheckUpdateItem(i)

\* C29: a check that returns while the circuit was opened no more than five
\* minutes ago, with no success recorded since, refuses the request; a check of
\* an open circuit older than that stores half-open and allows the request; a
\* record_success stores closed; a record_failure below the threshold leaves the
\* stored item as it is.
C29_OpenCircuitRefuses ==
    [][/\ ((CheckReturns /\ RecentlyOpened) => ~reply'.allow)
       /\ ((\E i \in Invocations : CheckUpdateItem(i)) =>
              (reply'.allow /\ circuit'.state = "half-open"))
       /\ ((\E i \in Invocations : RecordSuccess(i)) => circuit'.state = "closed")
       /\ ((\E i \in Invocations, n \in FailureCounts :
               n < FAILURE_THRESHOLD /\ RecordFailure(i, n)) => circuit' = circuit)
      ]_vars

(***************************************************************************)
(* The retry handler.                                                      *)
(***************************************************************************)
\* the handler has returned for the request as it stands
Handled == ~queued

\* what the handling of the request as it stands did
HandledAsClaimed ==
    IF retry_count_of(request) >= MAX_RETRIES
    THEN /\ response.status = "failed"
         /\ Len(dlq) = 1
         /\ dlq[1].retry_count = retry_count_of(request)
         /\ dlq[1].workflow_id = request.workflow_id
         /\ retries = retry_count_of(request) - first
    ELSE /\ response.status = "retried"
         /\ response.retry_count = retry_count_of(request) + 1
         /\ dlq = <<>>
         /\ retries = retry_count_of(request) - first + 1

\* C30: a request whose retry_count is at least MAX_RETRIES is sent to the
\* dead-letter queue exactly once and reported failed without being retried; one
\* whose retry_count is below MAX_RETRIES is reported retried with retry_count + 1
\* and is not sent to the dead-letter queue; a request resubmitted each time with
\* the returned count is retried at most MAX_RETRIES times and then reaches the
\* dead-letter queue.
C30_RetriesEndInDeadLetterQueue ==
    /\ [](/\ Len(dlq) <= 1
          /\ (queued => dlq = <<>>)
          /\ (Handled => HandledAsClaimed)
          /\ retries <= MAX_RETRIES)
    /\ <>[](Len(dlq) = 1 /\ response.status = "failed")

\* a request that started without a count is in the dead-letter queue after
\* MAX_RETRIES retries
C30_Witness ==
    /\ first = 0
    /\ retries = MAX_RETRIES
    /\ Len(dlq) = 1
    /\ dlq[1].retry_count = MAX_RETRIES
    /\ response.status = "failed"
====
